---- MODULE Spec2Model ----
(***************************************************************************)
(* A model of the Intel HDA controller driver core                         *)
(* (system/dev/audio/intel-hda/controller/intel-hda-controller.cpp) and of *)
(* the client list of the OP-TEE controller                                *)
(* (system/dev/tee/optee/optee-controller.cpp):                            *)
(*   - the stream context pool (AllocateStream / ReturnStream and the      *)
(*     per-direction stream tag masks),                                    *)
(*   - the same pool operations run by several threads under               *)
(*     stream_pool_lock_,                                                  *)
(*   - the controller lifecycle (constructor, DriverBind, DeviceShutdown,  *)
(*     ShutdownIRQThread, DeviceRelease, DriverUnbind, destructor) and the *)
(*     interrupt thread it starts and joins,                               *)
(*   - the client channels DeviceIoctl opens and the requests              *)
(*     ProcessClientRequest answers on them,                               *)
(*   - OpteeController's DdkOpen / AddClient / RemoveClient / DdkUnbind    *)
(*     and its CallWithMessage loop.                                       *)
(*                                                                         *)
(* The specifications, over the same variables:                            *)
(*   Spec        the pool operations as atomic calls, from a fresh pool or *)
(*               from one that has been through many allocate/return       *)
(*               cycles,                                                   *)
(*   SpecFresh   the same calls from the fresh pool only, with a call      *)
(*               budget long enough to use up a direction's tags,          *)
(*   SpecThreads the pool operations step by step, several threads,        *)
(*   SpecLife    the lifecycle hooks and the interrupt thread,             *)
(*   SpecLifeFair SpecLife with the interrupt thread and the thread inside *)
(*               ShutdownIRQThread scheduled fairly,                       *)
(*   SpecRequests a bound controller serving client requests of every      *)
(*               shape,                                                    *)
(*   SpecClients the lifecycle with clients sending requests beside it,    *)
(*   SpecOptee   the OP-TEE controller's client list under concurrent      *)
(*               opens, client releases and the unbind hook,               *)
(*   SpecIds     several controllers constructed and destroyed side by     *)
(*               side, drawing their ids from device_id_gen_,              *)
(*   SpecSmc     CallWithMessage against a secure world that answers with  *)
(*               every kind of return.                                     *)
(***************************************************************************)
EXTENDS Integers, FiniteSets, Sequences, TLC

(***************************************************************************)
(* Bounds of the model.                                                    *)
(***************************************************************************)
\* Stream contexts the hardware describes, by creation type.
NumInput == 1

NumOutput == 1

NumBidir == 1

\* Threads calling AllocateStream / ReturnStream concurrently (SpecThreads).
NumThreads == 2

\* Successful AllocateStream calls in one run of Spec.
MaxAllocs == 4

\* Pool calls the threads of SpecThreads make in one run.
MaxThreadCalls == 4

\* Controllers constructed in one run of SpecLife.
MaxControllers == 2

\* Client channels opened through DeviceIoctl.
NumChannels == 1

\* Client requests sent in one run.
MaxRequests == 2

\* sizeof(ihda_cmd_hdr_t), in the unit the model counts request sizes in.
HdrSize == 1

\* The most a request structure carries after its header.
MaxPayload == 1

\* Threads calling OpteeController::DdkOpen, one client each (SpecOptee).
NumOpeners == 2

\* Controllers that exist side by side in SpecIds.
NumControllerSlots == 2

\* Constructions SpecIds follows.
MaxIds == 4

\* SMC calls one CallWithMessage issues before the secure world ends the
\* exchange.
MaxSmcCalls == 3

(***************************************************************************)
(* Program constants.                                                      *)
(***************************************************************************)
\* sizeof(tag_pool) << 3, the bound of the scan in AllocateStreamTagLocked.
TagBits == 16

\* Initial value of free_input_tags_ / free_output_tags_: every tag 1..15
\* free, bit 0 reserved ("no tag").  The member initialisers live in
\* intel-hda-controller.h.
kInitialTagMask == 65534

INPUT == "INPUT"

OUTPUT == "OUTPUT"

BIDIR == "BIDIR"

INVALID == "INVALID"

\* nullptr, as a stream id and as a thread id.
NULL == 0

StreamTypes == {INPUT, OUTPUT, BIDIR}

Streams == 1..(NumInput + NumOutput + NumBidir)

Threads == 1..NumThreads

Tags == 1..(TagBits - 1)

Channels == 1..NumChannels

\* The threads of SpecOptee: one per DdkOpen call, named like the client it
\* creates, and the framework thread that runs DdkUnbind.
Openers == 1..NumOpeners

UnbindThread == NumOpeners + 1

\* The places of SpecIds in which a controller is constructed, lives and is
\* destroyed.
ControllerSlots == 1..NumControllerSlots

\* Command ids of the client protocol; "OTHER" stands for every id the
\* switch of ProcessClientRequest has no case for.
IHDA_CMD_GET_IDS == "IHDA_CMD_GET_IDS"

IHDA_CONTROLLER_CMD_SNAPSHOT_REGS == "IHDA_CONTROLLER_CMD_SNAPSHOT_REGS"

CommandIds == {IHDA_CMD_GET_IDS, IHDA_CONTROLLER_CMD_SNAPSHOT_REGS, "OTHER"}

\* Transaction ids a client puts in a request header: the number of the
\* request.
TransactionIds == 1..MaxRequests

\* Values of the hardware's vendor/device id and version registers.
RegImages ==
    {[vid |-> "vidA", did |-> "didA", vmaj |-> "majA", vmin |-> "minA"],
     [vid |-> "vidB", did |-> "didB", vmaj |-> "majB", vmin |-> "minB"]}

\* Statuses a failed channel read or write returns.
ChannelFailures == {"ZX_ERR_PEER_CLOSED"}

VARIABLES
    \* ---- stream pool (guarded by stream_pool_lock_)
    free_input_streams_,   \* set of stream ids (a tree keyed by stream id)
    free_output_streams_,
    free_bidir_streams_,
    free_input_tags_,      \* uint16_t
    free_output_tags_,     \* uint16_t
    configured_type_,      \* IntelHDAStream::configured_type_, per stream
    tag_,                  \* IntelHDAStream::tag_, per stream
    owner,                 \* per stream: the callers holding a RefPtr to it ({}: in a pool)
    last,                  \* the last pool call that returned, with its result
    calls,                 \* pool calls counted against MaxAllocs / MaxThreadCalls
    \* ---- threads of SpecThreads
    stream_pool_lock_,     \* NULL or the thread holding the mutex
    pc,                    \* per thread: position in the call it is making
    req,                   \* per thread: the call's argument and locals
    \* ---- lifecycle of the controller the driver framework is working with
    device_id_gen_,        \* IntelHDAController::device_id_gen_ (process wide)
    ctrl,                  \* "none" (not constructed), "alive" or "destroyed"
    id_,                   \* the controller's id
    state_,                \* the controller's lifecycle state
    ref_count_,            \* fbl::RefCounted reference count
    irq_thread_started_,
    default_domain_active, \* default_domain_ accepts and dispatches client requests
    cookie,                \* the driver cookie holds the reference leaked by DriverBind
    dev_node,              \* "none", "published" or "released": the device node and its reference
    hook,                  \* position of the framework thread inside a driver hook
    bind_status,           \* what the last DriverBind returned
    shutdown_returned,     \* DeviceShutdown has returned for this controller
    dtor_seen,             \* the states in which destructors have run
    \* ---- the interrupt thread
    irq_pc,                \* "none", "check", "wait", "handle", "finish", "exiting", "exited"
    irq_wakeup,            \* WakeupIRQThread's signal, latched until the wait consumes it
    irq_pending,           \* the hardware raised an interrupt
    \* ---- client channels bound to default_domain_ and the hardware they query
    channels,              \* per channel: "closed" or "active"
    inbox,                 \* per channel: <<>> or <<the message the client has sent>>
    in_flight,             \* per channel: <<>> or <<the request a dispatch callback is processing>>
    handled,               \* <<>> or <<the request the last handler run dealt with: its
                           \* channel, what was read, the status returned and the line
                           \* returning it, the registers then, the status before it>>
    last_reply,            \* the replies the last handler run wrote on its channel
    ret_status,            \* per channel: <<>> or <<the status the handler returned last>>
    n_requests,            \* requests sent, counted against MaxRequests
    hw_regs,               \* the hardware's id and version registers now
    pci_dev_info_,         \* the PCI device info cached by the bind sequence
    get_ids_size,          \* sizeof(ihda_get_ids_req_t)
    snapshot_regs_size,    \* sizeof(ihda_controller_snapshot_regs_req_t)
    init_ret,              \* what the last call of Init returned to DriverBind
    \* ---- a failed ZX_DEBUG_ASSERT is fatal: "none" or the assertion that failed
    aborted,
    \* ---- OpteeController
    clients_,              \* the client list, in push_back order
    clients_lock_,         \* NULL or the thread holding the lock
    needs_to_close_,       \* per client: MarkForClosing was called
    open_pc,               \* per opener: position in DdkOpen / RemoveClient
    open_ret,              \* per opener: what DdkOpen returned
    unbind_pc,             \* position of the framework thread in DdkUnbind
    \* ---- the controllers of the process, one per slot
    slot_pc,               \* per slot: "none", "constructing", "alive", "failed_bind", "released"
    slot_id,               \* per slot: <<>> or <<the id_ of the controller built there last>>
    id_log,                \* the values device_id_gen_.fetch_add returned, in order
    \* ---- OpteeController::CallWithMessage
    smc_pc,                \* "idle", "smc_call" (line 335), "returned" (line 336), "done"
    func_call,             \* the union func_call: the parameters of the next SMC call
    result,                \* <<>> or <<what zx_smc_call returned and left in result>>
    return_value,          \* the local return_value
    smc_calls,             \* zx_smc_call invocations of this CallWithMessage
    rpc_returns,           \* RPC-type returns dispatched in this CallWithMessage
    handler_calls,         \* rpc_handler invocations of this CallWithMessage
    issued,                \* <<>> or <<the parameters the last zx_smc_call was given>>
    handled_rpc,           \* <<>> or <<the last rpc_handler run: the arguments it was
                           \* given, its status, what it left in func_call.rpc_result>>
    smc_ret                \* <<>> or <<the value CallWithMessage returned>>

poolVars == <<free_input_streams_, free_output_streams_, free_bidir_streams_,
              free_input_tags_, free_output_tags_, configured_type_, tag_, owner, last, calls>>

threadVars == <<stream_pool_lock_, pc, req>>

lifeVars == <<device_id_gen_, ctrl, id_, state_, ref_count_, irq_thread_started_,
              default_domain_active, cookie, dev_node, hook, bind_status,
              shutdown_returned, dtor_seen, irq_pc, irq_wakeup, irq_pending>>

clientVars == <<channels, inbox, in_flight, handled, last_reply, ret_status, n_requests,
                hw_regs, pci_dev_info_, get_ids_size, snapshot_regs_size, init_ret>>

\* clientVars without what the bind sequence writes.
clientRest == <<channels, inbox, in_flight, handled, last_reply, ret_status, n_requests,
                hw_regs, get_ids_size, snapshot_regs_size>>

opteeVars == <<clients_, clients_lock_, needs_to_close_, open_pc, open_ret, unbind_pc>>

idVars == <<slot_pc, slot_id, id_log>>

smcVars == <<smc_pc, func_call, result, return_value, smc_calls, rpc_returns,
             handler_calls, issued, handled_rpc, smc_ret>>

vars == <<poolVars, threadVars, lifeVars, clientVars, opteeVars, idVars, smcVars, aborted>>

(***************************************************************************)
(* uint16_t bit operations.                                                *)
(***************************************************************************)
\* mask & (1u << i) != 0
BitSet(mask, i) == (mask \div (2 ^ i)) % 2 = 1

\* static_cast<uint16_t>(mask & ~(1u << i))
ClearBit(mask, i) == (IF BitSet(mask, i) THEN mask - 2 ^ i ELSE mask) % (2 ^ TagBits)

\* static_cast<uint16_t>(mask | (1u << i))
SetBit(mask, i) == (IF BitSet(mask, i) THEN mask ELSE mask + 2 ^ i) % (2 ^ TagBits)

(***************************************************************************)
(* IntelHDAStream: the creation type of a context is fixed (type()), the   *)
(* configured type and tag are set by Configure().                         *)
(***************************************************************************)
\* IntelHDAStream::type(): contexts are created input first, then output,
\* then bidirectional.
StreamType(s) ==
    IF s <= NumInput THEN INPUT
    ELSE IF s <= NumInput + NumOutput THEN OUTPUT
    ELSE BIDIR

\* The three free pools by the creation type of the contexts they hold.
FreeList(name) ==
    CASE name = INPUT  -> free_input_streams_
      [] name = OUTPUT -> free_output_streams_
      [] name = BIDIR  -> free_bidir_streams_

\* Tree::pop_front(): the trees are keyed by stream id, the front is the lowest id.
PopFront(list) == CHOOSE s \in list : \A o \in list : s <= o

\* Mutant: the tag is looked for in the mask of the other direction.
TagPoolOfOtherDirection(input) == IF input THEN free_output_tags_ ELSE free_input_tags_

\* uint16_t& tag_pool = input ? free_input_tags_ : free_output_tags_;
TagPool(input) == IF input THEN free_input_tags_ ELSE free_output_tags_

(***************************************************************************)
(* AllocateStreamTagLocked: for (ret = 1; ret < 16; ++ret) the first set   *)
(* bit wins and is cleared; 0 when no bit of 1..15 is set.  The result is  *)
(* the tag returned and the new value of the mask.                         *)
(***************************************************************************)
RECURSIVE TagScan(_, _)
TagScan(tag_pool, ret) ==
    IF ret >= TagBits THEN [ret |-> 0, pool |-> tag_pool]
    ELSE IF BitSet(tag_pool, ret) THEN [ret |-> ret, pool |-> ClearBit(tag_pool, ret)]
    ELSE TagScan(tag_pool, ret + 1)

\* Mutant: the tag is returned but its bit is left set.
AllocateStreamTagNoClear(tag_pool) == [ret |-> TagScan(tag_pool, 1).ret, pool |-> tag_pool]

\* Mutant: the scan runs from bit 15 down, the highest set bit wins.
RECURSIVE TagScanDown(_, _)
TagScanDown(tag_pool, ret) ==
    IF ret < 1 THEN [ret |-> 0, pool |-> tag_pool]
    ELSE IF BitSet(tag_pool, ret) THEN [ret |-> ret, pool |-> ClearBit(tag_pool, ret)]
    ELSE TagScanDown(tag_pool, ret - 1)

AllocateStreamTagFromTop(tag_pool) == TagScanDown(tag_pool, TagBits - 1)

\* Mutant: with no bit of 1..15 set, tag 1 is handed out all the same.
AllocateStreamTagNeverFails(tag_pool) ==
    IF TagScan(tag_pool, 1).ret = 0 THEN [ret |-> 1, pool |-> tag_pool]
    ELSE TagScan(tag_pool, 1)

AllocateStreamTagLocked(tag_pool) == TagScan(tag_pool, 1)

\* ReleaseStreamTagLocked: the new value of the mask.  Its two assertions
\* (tag in 1..15, bit currently clear) are ReleaseStreamTagAsserts.
ReleaseStreamTagLocked(tag_pool, tag) == SetBit(tag_pool, tag)

ReleaseStreamTagAsserts(tag_pool, tag) ==
    /\ tag > 0 /\ tag <= 15
    /\ ~BitSet(tag_pool, tag)

(***************************************************************************)
(* AllocateStream, lines 112-127: the list the context is taken from.      *)
(*   "assert"  the default: branch (not INPUT or OUTPUT),                  *)
(*   "none"    the direction's list and the bidirectional list are empty.  *)
(***************************************************************************)
\* Mutant: a request for a bidirectional context is served from the
\* bidirectional list.
SelectSourceAnyType(type) ==
    IF FreeList(type) # {} THEN type
    ELSE IF FreeList(BIDIR) # {} THEN BIDIR
    ELSE "none"

\* Mutant: the bidirectional list is tried first.
SelectSourceBidirFirst(type) ==
    IF type \notin {INPUT, OUTPUT} THEN "assert"
    ELSE IF FreeList(BIDIR) # {} THEN BIDIR
    ELSE IF FreeList(type) # {} THEN type
    ELSE "none"

SelectSource(type) ==
    IF type \notin {INPUT, OUTPUT} THEN "assert"
    ELSE IF FreeList(type) # {} THEN type
    ELSE IF FreeList(BIDIR) # {} THEN BIDIR
    ELSE "none"

\* ReturnStreamLocked, lines 150-155: the list a returned context goes to,
\* chosen by ptr->type(), the creation type.
\* Mutant: the list is chosen by the configured type instead.
ReturnToConfiguredType(s) == configured_type_[s]

ReturnDestination(s) == StreamType(s)

\* The three pools with list `name` replaced by `list`.
SetFreeList(name, list) ==
    /\ free_input_streams_'  = IF name = INPUT  THEN list ELSE free_input_streams_
    /\ free_output_streams_' = IF name = OUTPUT THEN list ELSE free_output_streams_
    /\ free_bidir_streams_'  = IF name = BIDIR  THEN list ELSE free_bidir_streams_

\* The two masks with the mask of the direction replaced by `pool`.
SetTagPool(input, pool) ==
    /\ free_input_tags_'  = IF input THEN pool ELSE free_input_tags_
    /\ free_output_tags_' = IF input THEN free_output_tags_ ELSE pool

PoolUnchanged ==
    UNCHANGED <<free_input_streams_, free_output_streams_, free_bidir_streams_,
                free_input_tags_, free_output_tags_, configured_type_, tag_, owner>>

\* What a pool call returned: op, the type asked for or the stream given
\* back, the stream returned (NULL: nullptr) and why a call failed.
Result(op, arg, ret, why) == [op |-> op, arg |-> arg, ret |-> ret, why |-> why]

(***************************************************************************)
(* AllocateStream(type) called by t, as one atomic call (the whole body    *)
(* runs with stream_pool_lock_ held).                                      *)
(***************************************************************************)
AllocateStream(t, type) ==
    LET src    == SelectSource(type)
        tagres == AllocateStreamTagLocked(TagPool(type = INPUT))
        ret    == PopFront(FreeList(src))
    IN
    /\ aborted = "none"
    /\ CASE src = "assert" ->
              \* ZX_DEBUG_ASSERT(false); return nullptr;
              /\ aborted' = "AllocateStream:119"
              /\ last' = Result("AllocateStream", type, NULL, "bad_type")
              /\ PoolUnchanged
         [] src = "none" ->
              /\ last' = Result("AllocateStream", type, NULL, "no_stream")
              /\ PoolUnchanged
              /\ UNCHANGED aborted
         [] src \in StreamTypes /\ tagres.ret = 0 ->
              /\ last' = Result("AllocateStream", type, NULL, "no_tag")
              /\ PoolUnchanged
              /\ UNCHANGED aborted
         [] OTHER ->
              /\ SetTagPool(type = INPUT, tagres.pool)
              /\ SetFreeList(src, FreeList(src) \ {ret})
              \* ret->Configure(type, stream_tag)
              /\ configured_type_' = [configured_type_ EXCEPT ![ret] = type]
              /\ tag_' = [tag_ EXCEPT ![ret] = tagres.ret]
              /\ owner' = [owner EXCEPT ![ret] = @ \cup {t}]
              /\ last' = Result("AllocateStream", type, ret, "ok")
              /\ UNCHANGED aborted

(***************************************************************************)
(* ReturnStreamLocked(ptr): the context goes back to the pool chosen by    *)
(* ptr->type() after Configure(INVALID, 0).  The tag mask is not touched.  *)
(***************************************************************************)
\* Mutant: the context goes back to its pool still configured.
ReturnStreamKeepsConfiguration(s) ==
    LET dst == ReturnDestination(s) IN
    /\ SetFreeList(dst, FreeList(dst) \cup {s})
    /\ owner' = [owner EXCEPT ![s] = {}]
    /\ UNCHANGED <<configured_type_, tag_, free_input_tags_, free_output_tags_, aborted>>

ReturnStreamLocked(s) ==
    LET dst == ReturnDestination(s) IN
    IF dst \notin StreamTypes
    THEN \* default: ZX_DEBUG_ASSERT(false); return;
         /\ aborted' = "ReturnStreamLocked:154"
         /\ PoolUnchanged
    ELSE /\ configured_type_' = [configured_type_ EXCEPT ![s] = INVALID]
         /\ tag_' = [tag_ EXCEPT ![s] = 0]
         /\ SetFreeList(dst, FreeList(dst) \cup {s})
         /\ owner' = [owner EXCEPT ![s] = {}]
         /\ UNCHANGED <<free_input_tags_, free_output_tags_, aborted>>

\* ReturnStream(ptr) called by t with a stream it holds.
ReturnStream(t, s) ==
    /\ aborted = "none"
    /\ t \in owner[s]
    /\ ReturnStreamLocked(s)
    /\ last' = Result("ReturnStream", s, NULL, "ok")

(***************************************************************************)
(* Initial state: the pools as populated at bind, every tag free, no       *)
(* thread in a call, no controller constructed yet.                        *)
(***************************************************************************)
\* The mask of a direction after k allocations in it: tags 1..k handed out.
RECURSIVE MaskAfter(_)
MaskAfter(k) ==
    IF k = 0 THEN kInitialTagMask ELSE AllocateStreamTagLocked(MaskAfter(k - 1)).pool

\* ReturnStream leaves the masks alone, so a pool whose contexts are all free
\* again after k allocate/return cycles of a direction has that direction's
\* mask at MaskAfter(k) (SpecFresh reaches these states from the fresh
\* pool).  Spec starts from a fresh pool or from one nearly or wholly out of
\* tags.
PriorCycles == {0, TagBits - 2, TagBits - 1}

InitPoolWith(input_tags, output_tags) ==
    /\ free_input_streams_  = {s \in Streams : StreamType(s) = INPUT}
    /\ free_output_streams_ = {s \in Streams : StreamType(s) = OUTPUT}
    /\ free_bidir_streams_  = {s \in Streams : StreamType(s) = BIDIR}
    /\ free_input_tags_  = input_tags
    /\ free_output_tags_ = output_tags
    /\ configured_type_ = [s \in Streams |-> INVALID]
    /\ tag_ = [s \in Streams |-> 0]
    /\ owner = [s \in Streams |-> {}]
    /\ last = Result("none", NULL, NULL, "ok")
    /\ calls = 0

InitThreads ==
    /\ stream_pool_lock_ = NULL
    /\ pc = [t \in Threads |-> "idle"]
    /\ req = [t \in Threads |-> NULL]

InitLife ==
    /\ device_id_gen_ = 0
    /\ ctrl = "none"
    /\ id_ = 0
    /\ state_ = "STARTING"
    /\ ref_count_ = 0
    /\ irq_thread_started_ = FALSE
    /\ default_domain_active = FALSE
    /\ cookie = FALSE
    /\ dev_node = "none"
    /\ hook = "idle"
    /\ bind_status = "none"
    /\ shutdown_returned = FALSE
    /\ dtor_seen = {}
    /\ irq_pc = "none"
    /\ irq_wakeup = FALSE
    /\ irq_pending = FALSE

\* No client channel is open.
InitClientsWith(get_ids, snapshot_regs, regs) ==
    /\ channels = [ch \in Channels |-> "closed"]
    /\ inbox = [ch \in Channels |-> <<>>]
    /\ in_flight = [ch \in Channels |-> <<>>]
    /\ handled = <<>>
    /\ last_reply = <<>>
    /\ ret_status = [ch \in Channels |-> <<>>]
    /\ n_requests = 0
    /\ hw_regs = regs
    /\ pci_dev_info_ = [vendor_id |-> "unset", device_id |-> "unset"]
    /\ get_ids_size = get_ids
    /\ snapshot_regs_size = snapshot_regs
    /\ init_ret = "none"

\* The request structures are the header alone, as the client protocol has
\* them.
InitClients ==
    InitClientsWith(HdrSize, HdrSize, CHOOSE r \in RegImages : r.vid = "vidA")

\* An OpteeController that has been bound: no client, nobody in DdkOpen.
InitOptee ==
    /\ clients_ = <<>>
    /\ clients_lock_ = NULL
    /\ needs_to_close_ = [c \in Openers |-> FALSE]
    /\ open_pc = [t \in Openers |-> "idle"]
    /\ open_ret = [t \in Openers |-> "none"]
    /\ unbind_pc = "idle"

InitIds ==
    /\ slot_pc = [c \in ControllerSlots |-> "none"]
    /\ slot_id = [c \in ControllerSlots |-> <<>>]
    /\ id_log = <<>>

InitSmc ==
    /\ smc_pc = "idle"
    /\ func_call = <<"none", "none">>
    /\ result = <<>>
    /\ return_value = "none"
    /\ smc_calls = 0
    /\ rpc_returns = 0
    /\ handler_calls = 0
    /\ issued = <<>>
    /\ handled_rpc = <<>>
    /\ smc_ret = <<>>

\* The state after construction and bind.
InitFresh ==
    /\ InitPoolWith(kInitialTagMask, kInitialTagMask)
    /\ InitThreads
    /\ InitLife
    /\ InitClients
    /\ InitOptee
    /\ InitIds
    /\ InitSmc
    /\ aborted = "none"

\* The same, or the pool after earlier allocate/return cycles.
Init ==
    /\ \E i, o \in PriorCycles : InitPoolWith(MaskAfter(i), MaskAfter(o))
    /\ InitThreads
    /\ InitLife
    /\ InitClients
    /\ InitOptee
    /\ InitIds
    /\ InitSmc
    /\ aborted = "none"

\* The one caller of the atomic pool calls of Spec.
Client == 1

\* A call of AllocateStream; the successful ones are counted.
ClientAllocate ==
    /\ calls < MaxAllocs
    /\ \E type \in StreamTypes : AllocateStream(Client, type)
    /\ calls' = IF last'.ret # NULL THEN calls + 1 ELSE calls
    /\ UNCHANGED <<threadVars, lifeVars, clientVars, opteeVars, idVars, smcVars>>

ClientReturn ==
    /\ \E s \in Streams : ReturnStream(Client, s)
    /\ UNCHANGED <<calls, threadVars, lifeVars, clientVars, opteeVars, idVars, smcVars>>

Next ==
    \/ ClientAllocate
    \/ ClientReturn

Spec == Init /\ [][Next]_vars

(***************************************************************************)
(* SpecFresh: the same calls from the fresh pool, with enough allocations  *)
(* to hand out all fifteen tags of a direction.                            *)
(***************************************************************************)
FreshAllocate ==
    /\ calls < TagBits + 1
    /\ \E type \in {INPUT, OUTPUT} : AllocateStream(Client, type)
    /\ calls' = IF last'.ret # NULL THEN calls + 1 ELSE calls
    /\ UNCHANGED <<threadVars, lifeVars, clientVars, opteeVars, idVars, smcVars>>

NextFresh ==
    \/ FreshAllocate
    \/ ClientReturn

SpecFresh == InitFresh /\ [][NextFresh]_vars

(***************************************************************************)
(* SpecThreads: AllocateStream and ReturnStream called by several threads, *)
(* one memory access or container operation per step.  pc[t] is the        *)
(* position of thread t in its call, req[t] the call's argument and        *)
(* locals.                                                                 *)
(***************************************************************************)
\* Positions at which fbl::AutoLock lock(&stream_pool_lock_) has been taken
\* and not yet released.
InCriticalSection ==
    {"alloc_select", "alloc_tag_scan", "alloc_tag_clear", "alloc_front",
     "alloc_erase", "alloc_unlock", "return_body", "return_unlock"}

Locals(type, src, tag, ret, why) ==
    [type |-> type, src |-> src, tag |-> tag, ret |-> ret, why |-> why]

\* Mutant: the mutex never makes a caller wait.
LockNeverWaits(t) == TRUE

\* fbl::AutoLock's constructor returns once no other thread holds the mutex.
LockAvailable(t) == stream_pool_lock_ = NULL

\* Thread t calls AllocateStream(type).
CallAllocateStream(t, type) ==
    /\ aborted = "none"
    /\ pc[t] = "idle"
    /\ calls < MaxThreadCalls
    /\ calls' = calls + 1
    /\ pc' = [pc EXCEPT ![t] = "alloc_lock"]
    /\ req' = [req EXCEPT ![t] = Locals(type, "none", 0, NULL, "ok")]
    /\ UNCHANGED <<stream_pool_lock_, last, aborted>>
    /\ PoolUnchanged

\* Thread t calls ReturnStream with a stream it holds.
CallReturnStream(t, s) ==
    /\ aborted = "none"
    /\ pc[t] = "idle"
    /\ t \in owner[s]
    /\ calls < MaxThreadCalls
    /\ calls' = calls + 1
    /\ pc' = [pc EXCEPT ![t] = "return_lock"]
    /\ req' = [req EXCEPT ![t] = Locals(INVALID, "none", 0, s, "ok")]
    /\ UNCHANGED <<stream_pool_lock_, last, aborted>>
    /\ PoolUnchanged

\* fbl::AutoLock lock(&stream_pool_lock_), lines 109 and 141.
AcquireLock(t) ==
    /\ aborted = "none"
    /\ pc[t] \in {"alloc_lock", "return_lock"}
    /\ LockAvailable(t)
    /\ stream_pool_lock_' = t
    /\ pc' = [pc EXCEPT ![t] = IF pc[t] = "alloc_lock" THEN "alloc_select" ELSE "return_body"]
    /\ UNCHANGED <<req, last, calls, aborted>>
    /\ PoolUnchanged

\* Lines 112-127: the switch and the two is_empty() tests.
AllocSelect(t) ==
    LET src == SelectSource(req[t].type) IN
    /\ aborted = "none"
    /\ pc[t] = "alloc_select"
    /\ CASE src = "assert" ->
              /\ aborted' = "AllocateStream:119"
              /\ UNCHANGED <<pc, req>>
         [] src = "none" ->
              /\ pc' = [pc EXCEPT ![t] = "alloc_unlock"]
              /\ req' = [req EXCEPT ![t].why = "no_stream"]
              /\ UNCHANGED aborted
         [] OTHER ->
              /\ pc' = [pc EXCEPT ![t] = "alloc_tag_scan"]
              /\ req' = [req EXCEPT ![t].src = src]
              /\ UNCHANGED aborted
    /\ UNCHANGED <<stream_pool_lock_, last, calls>>
    /\ PoolUnchanged

\* Lines 164-165 and 131: the scan of the mask for the first set bit.
AllocTagScan(t) ==
    LET found == AllocateStreamTagLocked(TagPool(req[t].type = INPUT)).ret IN
    /\ aborted = "none"
    /\ pc[t] = "alloc_tag_scan"
    /\ IF found = 0
       THEN /\ pc' = [pc EXCEPT ![t] = "alloc_unlock"]
            /\ req' = [req EXCEPT ![t].why = "no_tag"]
       ELSE /\ pc' = [pc EXCEPT ![t] = "alloc_tag_clear"]
            /\ req' = [req EXCEPT ![t].tag = found]
    /\ UNCHANGED <<stream_pool_lock_, last, calls, aborted>>
    /\ PoolUnchanged

\* Line 166: tag_pool = static_cast<uint16_t>(tag_pool & ~(1u << ret)).
AllocTagClear(t) ==
    LET input == (req[t].type = INPUT) IN
    /\ aborted = "none"
    /\ pc[t] = "alloc_tag_clear"
    /\ SetTagPool(input, ClearBit(TagPool(input), req[t].tag))
    /\ pc' = [pc EXCEPT ![t] = "alloc_front"]
    /\ UNCHANGED <<free_input_streams_, free_output_streams_, free_bidir_streams_,
                   configured_type_, tag_, owner>>
    /\ UNCHANGED <<stream_pool_lock_, req, last, calls, aborted>>

\* Line 134, pop_front(): the front of the tree is read; on an empty tree
\* pop_front() gives nullptr and line 135 dereferences it.
AllocFront(t) ==
    /\ aborted = "none"
    /\ pc[t] = "alloc_front"
    /\ IF FreeList(req[t].src) = {}
       THEN /\ aborted' = "AllocateStream:135"
            /\ UNCHANGED <<pc, req>>
       ELSE /\ pc' = [pc EXCEPT ![t] = "alloc_erase"]
            /\ req' = [req EXCEPT ![t].ret = PopFront(FreeList(req[t].src))]
            /\ UNCHANGED aborted
    /\ UNCHANGED <<stream_pool_lock_, last, calls>>
    /\ PoolUnchanged

\* Lines 134-135: the node is unlinked and handed to the caller, configured.
AllocErase(t) ==
    LET ret == req[t].ret IN
    /\ aborted = "none"
    /\ pc[t] = "alloc_erase"
    /\ SetFreeList(req[t].src, FreeList(req[t].src) \ {ret})
    /\ configured_type_' = [configured_type_ EXCEPT ![ret] = req[t].type]
    /\ tag_' = [tag_ EXCEPT ![ret] = req[t].tag]
    /\ owner' = [owner EXCEPT ![ret] = @ \cup {t}]
    /\ pc' = [pc EXCEPT ![t] = "alloc_unlock"]
    /\ UNCHANGED <<free_input_tags_, free_output_tags_>>
    /\ UNCHANGED <<stream_pool_lock_, req, last, calls, aborted>>

\* Line 142: ReturnStreamLocked(fbl::move(ptr)) with the lock held.
ReturnBody(t) ==
    /\ aborted = "none"
    /\ pc[t] = "return_body"
    /\ ReturnStreamLocked(req[t].ret)
    /\ pc' = [pc EXCEPT ![t] = "return_unlock"]
    /\ UNCHANGED <<stream_pool_lock_, req, last, calls>>

\* The AutoLock goes out of scope and the call returns.
ReleaseLock(t) ==
    /\ aborted = "none"
    /\ pc[t] \in {"alloc_unlock", "return_unlock"}
    /\ stream_pool_lock_' = NULL
    /\ last' = IF pc[t] = "alloc_unlock"
               THEN Result("AllocateStream", req[t].type,
                           IF req[t].why = "ok" THEN req[t].ret ELSE NULL, req[t].why)
               ELSE Result("ReturnStream", req[t].ret, NULL, "ok")
    /\ pc' = [pc EXCEPT ![t] = "idle"]
    /\ req' = [req EXCEPT ![t] = NULL]
    /\ UNCHANGED <<calls, aborted>>
    /\ PoolUnchanged

NextThreads ==
    \/ \E t \in Threads, type \in {INPUT, OUTPUT} : CallAllocateStream(t, type) /\ UNCHANGED <<lifeVars, clientVars, opteeVars, idVars, smcVars>>
    \/ \E t \in Threads, s \in Streams : CallReturnStream(t, s) /\ UNCHANGED <<lifeVars, clientVars, opteeVars, idVars, smcVars>>
    \/ \E t \in Threads : AcquireLock(t) /\ UNCHANGED <<lifeVars, clientVars, opteeVars, idVars, smcVars>>
    \/ \E t \in Threads : AllocSelect(t) /\ UNCHANGED <<lifeVars, clientVars, opteeVars, idVars, smcVars>>
    \/ \E t \in Threads : AllocTagScan(t) /\ UNCHANGED <<lifeVars, clientVars, opteeVars, idVars, smcVars>>
    \/ \E t \in Threads : AllocTagClear(t) /\ UNCHANGED <<lifeVars, clientVars, opteeVars, idVars, smcVars>>
    \/ \E t \in Threads : AllocFront(t) /\ UNCHANGED <<lifeVars, clientVars, opteeVars, idVars, smcVars>>
    \/ \E t \in Threads : AllocErase(t) /\ UNCHANGED <<lifeVars, clientVars, opteeVars, idVars, smcVars>>
    \/ \E t \in Threads : ReturnBody(t) /\ UNCHANGED <<lifeVars, clientVars, opteeVars, idVars, smcVars>>
    \/ \E t \in Threads : ReleaseLock(t) /\ UNCHANGED <<lifeVars, clientVars, opteeVars, idVars, smcVars>>

SpecThreads == InitFresh /\ [][NextThreads]_vars

(***************************************************************************)
(* SpecLife: the controller lifecycle.  The driver framework is one thread *)
(* calling the driver hooks (DriverBind, DriverUnbind) and the device      *)
(* hooks (unbind = DeviceShutdown, release = DeviceRelease) one at a time, *)
(* in any order; the interrupt thread runs beside it.  A failed            *)
(* ZX_DEBUG_ASSERT is fatal (it is recorded in `aborted` and nothing runs  *)
(* after it).                                                              *)
(***************************************************************************)
States == <<"STARTING", "OPERATING", "SHUTTING_DOWN", "SHUT_DOWN">>

\* What Init can return when a step of the bind sequence fails.
FailStatuses == {"ZX_ERR_NO_MEMORY", "ZX_ERR_INTERNAL"}

\* The steps of the bind sequence (acquire the PCI protocol, map registers
\* and claim the interrupt, DMA memory, stream pools, start the interrupt
\* thread, go OPERATING and publish).
BindSteps == 1..6

\* Constructor, lines 64-68: state_(STARTING), id_(device_id_gen_.fetch_add(1u)).
\* AdoptRef leaves the reference count at 1.
\* Mutant: the generator hands out its value without moving on.
FetchAddKeepsValue(gen) == [ret |-> gen, next |-> gen]

\* Line 66: device_id_gen_.fetch_add(1u), one atomic step: the value before
\* and the value the generator holds afterwards.
FetchAdd(gen) == [ret |-> gen, next |-> gen + 1]

Constructor ==
    /\ state_' = States[1]
    /\ id_' = FetchAdd(device_id_gen_).ret
    /\ device_id_gen_' = FetchAdd(device_id_gen_).next
    /\ ref_count_' = 1
    /\ ctrl' = "alive"
    /\ irq_thread_started_' = FALSE
    /\ default_domain_active' = FALSE
    /\ cookie' = FALSE
    /\ dev_node' = "none"
    /\ shutdown_returned' = FALSE
    /\ irq_pc' = "none"
    /\ irq_wakeup' = FALSE
    /\ irq_pending' = FALSE

\* Destructor, lines 70-71, run when the last reference goes: the assertion
\* on the state, then the controller is gone.
Destructor ==
    /\ ctrl' = "destroyed"
    /\ dtor_seen' = dtor_seen \cup {state_}
    /\ aborted' = IF state_ \in {"STARTING", "SHUT_DOWN"}
                  THEN aborted ELSE "~IntelHDAController:71"

\* The controller is used after its destructor ran (a hook reclaims a
\* reference that is no longer there): the access faults, or it reads and
\* writes the dead object without visible effect.
UseAfterFree(label) ==
    /\ aborted' \in {aborted, label}
    /\ UNCHANGED <<ref_count_, ctrl, dtor_seen>>

\* A RefPtr to the controller is reset: the count drops and the destructor
\* runs when it reaches zero.
ReleaseReference ==
    /\ ref_count_' = ref_count_ - 1
    /\ IF ref_count_ - 1 = 0
       THEN Destructor
       ELSE UNCHANGED <<ctrl, dtor_seen, aborted>>

\* Mutant: the cookie is written whatever Init returned.
BindAlwaysLeaks(ret) == TRUE

\* DriverBind, lines 315-316: the reference is leaked into the cookie when
\* Init returned ZX_OK.
BindLeaksReference(ret) == ret = "ZX_OK"

\* DriverBind, lines 308-310: a null cookie pointer is refused, otherwise a
\* controller is constructed.
DriverBindConstruct(cookie_is_null) ==
    /\ aborted = "none"
    /\ hook = "idle"
    /\ ctrl \in {"none", "destroyed"}
    /\ device_id_gen_ < MaxControllers
    /\ IF cookie_is_null
       THEN /\ bind_status' = "ZX_ERR_INVALID_ARGS"
            /\ UNCHANGED <<device_id_gen_, ctrl, id_, state_, ref_count_,
                           irq_thread_started_, default_domain_active, cookie,
                           dev_node, hook, shutdown_returned, irq_pc, irq_wakeup,
                           irq_pending>>
       ELSE /\ Constructor
            /\ hook' = "bind_init"
            /\ bind_status' = "none"
    /\ UNCHANGED <<dtor_seen, aborted>>

\* A controller is constructed and held by a RefPtr without being bound.
ConstructUnbound ==
    /\ aborted = "none"
    /\ hook = "idle"
    /\ ctrl \in {"none", "destroyed"}
    /\ device_id_gen_ < MaxControllers
    /\ Constructor
    /\ hook' = "unbound"
    /\ bind_status' = "none"
    /\ UNCHANGED <<dtor_seen, aborted>>

\* The RefPtr of the unbound controller goes out of scope.
DestroyUnbound ==
    /\ aborted = "none"
    /\ hook = "unbound"
    /\ ReleaseReference
    /\ hook' = "idle"
    /\ UNCHANGED <<device_id_gen_, id_, state_, irq_thread_started_,
                   default_domain_active, cookie, dev_node, bind_status,
                   shutdown_returned, irq_pc, irq_wakeup, irq_pending>>

\* IntelHDAController::Init, the bind sequence: a failure at step k returns
\* its status with the steps before k done (the interrupt thread is running
\* when step 6 fails); on success the state is OPERATING, the thread runs,
\* the client domain is active and the device node is published with the
\* controller as its context.  Init takes no reference: the framework's one
\* reference is the one DriverBind leaks.  Step 1 reads the PCI device info
\* into pci_dev_info_.
ControllerInit(failed_step, status) ==
    /\ pci_dev_info_' = IF failed_step = 1
                        THEN pci_dev_info_
                        ELSE [vendor_id |-> hw_regs.vid, device_id |-> hw_regs.did]
    /\ irq_thread_started_' = (failed_step = 0 \/ failed_step > 5)
    /\ irq_pc' = IF failed_step = 0 \/ failed_step > 5 THEN "check" ELSE "none"
    /\ state_' = IF failed_step = 0 THEN States[2] ELSE state_
    /\ default_domain_active' = (failed_step = 0)
    /\ dev_node' = IF failed_step = 0 THEN "published" ELSE "none"
    /\ init_ret' = IF failed_step = 0 THEN "ZX_OK" ELSE status

\* DriverBind, lines 314-318: Init, then the reference is leaked into the
\* cookie or the controller is let go.
DriverBindInit(failed_step, status) ==
    /\ aborted = "none"
    /\ hook = "bind_init"
    /\ ControllerInit(failed_step, status)
    /\ bind_status' = init_ret'
    /\ cookie' = BindLeaksReference(init_ret')
    /\ IF BindLeaksReference(init_ret')
       THEN UNCHANGED <<ref_count_, ctrl, dtor_seen, aborted>>
       ELSE ReleaseReference
    /\ hook' = "idle"
    /\ UNCHANGED <<device_id_gen_, id_, shutdown_returned, irq_wakeup, irq_pending>>

\* The RefPtrs the process handlers of n channels captured (line 220) are
\* reset.
ReleaseReferences(n) ==
    /\ ref_count_' = ref_count_ - n
    /\ IF n > 0 /\ ref_count_ - n = 0
       THEN Destructor
       ELSE UNCHANGED <<ctrl, dtor_seen, aborted>>

\* DeviceShutdown, line 197: default_domain_->Deactivate() begins: the
\* domain starts no further dispatch.
DeviceShutdownDeactivate ==
    /\ aborted = "none"
    /\ hook = "idle"
    /\ dev_node = "published"
    /\ IF ctrl = "alive"
       THEN /\ default_domain_active' = FALSE
            /\ hook' = "shutdown_sync"
            /\ UNCHANGED <<ref_count_, ctrl, dtor_seen, aborted>>
       ELSE /\ UseAfterFree("DeviceShutdown:use_after_free")
            /\ UNCHANGED <<default_domain_active, hook>>
    /\ UNCHANGED <<device_id_gen_, id_, state_, irq_thread_started_,
                   cookie, dev_node, bind_status, shutdown_returned,
                   irq_pc, irq_wakeup, irq_pending>>

\* DeviceShutdown, line 197: Deactivate() returns once no dispatch callback
\* is in flight; the channels of the domain are closed and their handlers,
\* with the controller references they hold, destroyed.
DeviceShutdownSync ==
    /\ aborted = "none"
    /\ hook = "shutdown_sync"
    /\ \A ch \in Channels : in_flight[ch] = <<>>
    /\ channels' = [ch \in Channels |-> "closed"]
    /\ inbox' = [ch \in Channels |-> <<>>]
    /\ ReleaseReferences(Cardinality({ch \in Channels : channels[ch] = "active"}))
    /\ hook' = "shutdown_irq"
    /\ UNCHANGED <<device_id_gen_, id_, state_, irq_thread_started_,
                   default_domain_active, cookie, dev_node, bind_status,
                   shutdown_returned, irq_pc, irq_wakeup, irq_pending>>
    /\ UNCHANGED <<in_flight, handled, last_reply, ret_status, n_requests,
                   hw_regs, pci_dev_info_, get_ids_size, snapshot_regs_size, init_ret>>

\* Mutant: the shutdown sequence runs whether or not the thread is started.
ShutdownUnconditional == TRUE

\* ShutdownIRQThread, line 184: if (irq_thread_started_).
ShutdownNeeded == irq_thread_started_

\* The shutdown path writes the final state itself.
ShutdownWritesShutDown == States[4]

\* ShutdownIRQThread, line 185: the state the shutdown path requests.
ShutdownRequestState == States[3]

\* ShutdownIRQThread, lines 184-185: SetState(SHUTTING_DOWN) when the thread
\* was started, otherwise the call (and DeviceShutdown) returns.
ShutdownSetState ==
    /\ aborted = "none"
    /\ hook = "shutdown_irq"
    /\ ctrl = "alive"
    /\ IF ShutdownNeeded
       THEN /\ state_' = ShutdownRequestState
            /\ hook' = "shutdown_wakeup"
            /\ UNCHANGED shutdown_returned
       ELSE /\ hook' = "idle"
            /\ shutdown_returned' = TRUE
            /\ UNCHANGED state_
    /\ UNCHANGED <<device_id_gen_, ctrl, id_, ref_count_, irq_thread_started_,
                   default_domain_active, cookie, dev_node, bind_status, dtor_seen,
                   irq_pc, irq_wakeup, irq_pending, aborted>>

\* ShutdownIRQThread, line 186: WakeupIRQThread().
ShutdownWakeup ==
    /\ aborted = "none"
    /\ hook = "shutdown_wakeup"
    /\ irq_wakeup' = TRUE
    /\ hook' = "shutdown_join"
    /\ UNCHANGED <<device_id_gen_, ctrl, id_, state_, ref_count_, irq_thread_started_,
                   default_domain_active, cookie, dev_node, bind_status,
                   shutdown_returned, dtor_seen, irq_pc, irq_pending, aborted>>

\* Mutant: thrd_join is left out.
JoinReturnsAtOnce == TRUE

\* thrd_join(irq_thread_, NULL) returns once the thread has exited.
ThreadJoined == irq_pc = "exited"

\* ShutdownIRQThread, lines 187-189: the join, the assertion that the thread
\* left the state at SHUT_DOWN, irq_thread_started_ = false.
ShutdownJoin ==
    /\ aborted = "none"
    /\ hook = "shutdown_join"
    /\ ThreadJoined
    /\ IF state_ = States[4]
       THEN /\ irq_thread_started_' = FALSE
            /\ hook' = "idle"
            /\ shutdown_returned' = TRUE
            /\ UNCHANGED aborted
       ELSE /\ aborted' = "ShutdownIRQThread:188"
            /\ UNCHANGED <<irq_thread_started_, hook, shutdown_returned>>
    /\ UNCHANGED <<device_id_gen_, ctrl, id_, state_, ref_count_,
                   default_domain_active, cookie, dev_node, bind_status, dtor_seen,
                   irq_pc, irq_wakeup, irq_pending>>

\* DeviceRelease, lines 203-213: the device node's reference is taken back,
\* the state is asserted to be SHUT_DOWN, the reference is dropped.
DeviceRelease ==
    /\ aborted = "none"
    /\ hook = "idle"
    /\ dev_node = "published"
    /\ IF ctrl # "alive"
       THEN /\ UseAfterFree("DeviceRelease:use_after_free")
            /\ dev_node' = "released"
       ELSE IF state_ = States[4]
       THEN /\ ReleaseReference
            /\ dev_node' = "released"
       ELSE /\ aborted' = "DeviceRelease:209"
            /\ UNCHANGED <<ref_count_, ctrl, dtor_seen, dev_node>>
    /\ UNCHANGED <<device_id_gen_, id_, state_, irq_thread_started_,
                   default_domain_active, cookie, hook, bind_status,
                   shutdown_returned, irq_pc, irq_wakeup, irq_pending>>

\* DriverUnbind, lines 321-332: the reference leaked into the cookie is
\* reclaimed and dropped.
DriverUnbind ==
    /\ aborted = "none"
    /\ hook = "idle"
    /\ cookie
    /\ IF ctrl = "alive"
       THEN ReleaseReference
       ELSE UseAfterFree("DriverUnbind:use_after_free")
    /\ cookie' = FALSE
    /\ UNCHANGED <<device_id_gen_, id_, state_, irq_thread_started_,
                   default_domain_active, dev_node, hook, bind_status,
                   shutdown_returned, irq_pc, irq_wakeup, irq_pending>>

(***************************************************************************)
(* The interrupt thread: it waits for an interrupt or a wakeup, handles    *)
(* what it was woken for and loops until it observes the shutdown request; *)
(* then it sets SHUT_DOWN as its last act and exits.  A failed register    *)
(* access while handling is fatal to the thread: it exits, either straight *)
(* away or through the same last act (the state write on that path is not  *)
(* fixed, so both are followed).  The model follows the thread while its   *)
(* controller is alive.                                                    *)
(***************************************************************************)
IrqFrame ==
    UNCHANGED <<device_id_gen_, ctrl, id_, ref_count_, irq_thread_started_,
                default_domain_active, cookie, dev_node, hook, bind_status,
                shutdown_returned, dtor_seen, aborted>>

\* The loop test: has shutdown been requested?
IRQCheck ==
    /\ aborted = "none" /\ ctrl = "alive"
    /\ irq_pc = "check"
    /\ irq_pc' = IF state_ = States[3] THEN "finish" ELSE "wait"
    /\ UNCHANGED <<state_, irq_wakeup, irq_pending>>
    /\ IrqFrame

\* The blocking wait: it returns on an interrupt or on the wakeup signal.
IRQWait ==
    /\ aborted = "none" /\ ctrl = "alive"
    /\ irq_pc = "wait"
    /\ irq_wakeup \/ irq_pending
    /\ irq_wakeup' = FALSE
    /\ irq_pc' = "handle"
    /\ UNCHANGED <<state_, irq_pending>>
    /\ IrqFrame

\* The interrupt status is read and cleared and the pending work drained;
\* register_access_fails: the access to the hardware failed and the thread
\* leaves its loop, last_act: it leaves through the write of SHUT_DOWN.
IRQHandle(register_access_fails, last_act) ==
    /\ aborted = "none" /\ ctrl = "alive"
    /\ irq_pc = "handle"
    /\ irq_pending' = FALSE
    /\ irq_pc' = IF register_access_fails THEN "exited" ELSE "check"
    /\ state_' = IF register_access_fails /\ last_act THEN States[4] ELSE state_
    /\ UNCHANGED irq_wakeup
    /\ IrqFrame

\* The shutdown request was observed: SetState(SHUT_DOWN), the last act.
IRQFinish ==
    /\ aborted = "none" /\ ctrl = "alive"
    /\ irq_pc = "finish"
    /\ state_' = States[4]
    /\ irq_pc' = "exiting"
    /\ UNCHANGED <<irq_wakeup, irq_pending>>
    /\ IrqFrame

\* The thread function returns.
IRQExit ==
    /\ aborted = "none" /\ ctrl = "alive"
    /\ irq_pc = "exiting"
    /\ irq_pc' = "exited"
    /\ UNCHANGED <<state_, irq_wakeup, irq_pending>>
    /\ IrqFrame

\* The hardware raises an interrupt while the controller operates.
HardwareInterrupt ==
    /\ aborted = "none" /\ ctrl = "alive"
    /\ state_ = States[2]
    /\ ~irq_pending
    /\ irq_pending' = TRUE
    /\ UNCHANGED <<state_, irq_pc, irq_wakeup>>
    /\ IrqFrame

NextLife ==
    \/ \E cookie_is_null \in BOOLEAN :
          DriverBindConstruct(cookie_is_null) /\ UNCHANGED <<poolVars, threadVars, clientVars, opteeVars, idVars, smcVars>>
    \/ ConstructUnbound /\ UNCHANGED <<poolVars, threadVars, clientVars, opteeVars, idVars, smcVars>>
    \/ DestroyUnbound /\ UNCHANGED <<poolVars, threadVars, clientVars, opteeVars, idVars, smcVars>>
    \/ DriverBindInit(0, "ZX_OK") /\ UNCHANGED <<poolVars, threadVars, clientRest, opteeVars, idVars, smcVars>>
    \/ \E k \in BindSteps, st \in FailStatuses :
          DriverBindInit(k, st) /\ UNCHANGED <<poolVars, threadVars, clientRest, opteeVars, idVars, smcVars>>
    \/ DeviceShutdownDeactivate /\ UNCHANGED <<poolVars, threadVars, clientVars, opteeVars, idVars, smcVars>>
    \/ DeviceShutdownSync /\ UNCHANGED <<poolVars, threadVars, opteeVars, idVars, smcVars>>
    \/ ShutdownSetState /\ UNCHANGED <<poolVars, threadVars, clientVars, opteeVars, idVars, smcVars>>
    \/ ShutdownWakeup /\ UNCHANGED <<poolVars, threadVars, clientVars, opteeVars, idVars, smcVars>>
    \/ ShutdownJoin /\ UNCHANGED <<poolVars, threadVars, clientVars, opteeVars, idVars, smcVars>>
    \/ DeviceRelease /\ UNCHANGED <<poolVars, threadVars, clientVars, opteeVars, idVars, smcVars>>
    \/ DriverUnbind /\ UNCHANGED <<poolVars, threadVars, clientVars, opteeVars, idVars, smcVars>>
    \/ IRQCheck /\ UNCHANGED <<poolVars, threadVars, clientVars, opteeVars, idVars, smcVars>>
    \/ IRQWait /\ UNCHANGED <<poolVars, threadVars, clientVars, opteeVars, idVars, smcVars>>
    \/ \E register_access_fails, last_act \in BOOLEAN :
          IRQHandle(register_access_fails, last_act) /\ UNCHANGED <<poolVars, threadVars, clientVars, opteeVars, idVars, smcVars>>
    \/ IRQFinish /\ UNCHANGED <<poolVars, threadVars, clientVars, opteeVars, idVars, smcVars>>
    \/ IRQExit /\ UNCHANGED <<poolVars, threadVars, clientVars, opteeVars, idVars, smcVars>>
    \/ HardwareInterrupt /\ UNCHANGED <<poolVars, threadVars, clientVars, opteeVars, idVars, smcVars>>

SpecLife == InitFresh /\ [][NextLife]_vars

\* The interrupt thread is a thread of its own and the framework thread
\* inside ShutdownIRQThread keeps running: each takes its next step when it
\* can.
IrqThreadStep ==
    /\ \/ IRQCheck
       \/ IRQWait
       \/ \E register_access_fails, last_act \in BOOLEAN :
             IRQHandle(register_access_fails, last_act)
       \/ IRQFinish
       \/ IRQExit
    /\ UNCHANGED <<poolVars, threadVars, clientVars, opteeVars, idVars, smcVars>>

ShutdownIRQThreadStep ==
    /\ ShutdownSetState \/ ShutdownWakeup \/ ShutdownJoin
    /\ UNCHANGED <<poolVars, threadVars, clientVars, opteeVars, idVars, smcVars>>

SpecLifeFair ==
    /\ InitFresh
    /\ [][NextLife]_vars
    /\ WF_vars(IrqThreadStep)
    /\ WF_vars(ShutdownIRQThreadStep)

(***************************************************************************)
(* Client request dispatch.  DeviceIoctl hands the client a channel bound  *)
(* to default_domain_; a message on the channel is dispatched, while the   *)
(* domain is active, to the process handler, which calls                   *)
(* ProcessClientRequest.  A request is [size, hdr]: the bytes sent and the *)
(* header fields; what of hdr a short request really carries is not read.  *)
(***************************************************************************)
Hdr(cmd, transaction_id) == [cmd |-> cmd, transaction_id |-> transaction_id]

\* sizeof(req): the request union is as large as its largest member.
ReqBufSize ==
    IF get_ids_size >= snapshot_regs_size
    THEN (IF get_ids_size >= HdrSize THEN get_ids_size ELSE HdrSize)
    ELSE (IF snapshot_regs_size >= HdrSize THEN snapshot_regs_size ELSE HdrSize)

\* The messages a channel read can deliver into the request buffer.
\* Lengths of the requests clients send: short of the header, the header
\* alone, the header with the longest payload.
RequestSizes == {HdrSize - 1, HdrSize, HdrSize + MaxPayload}

\* Sizes a request structure of the protocol has: the header alone or the
\* header with the longest payload.
LayoutSizes == {HdrSize, HdrSize + MaxPayload}

Messages ==
    [size : RequestSizes, hdr : [cmd : CommandIds, transaction_id : TransactionIds]]

\* What ProcessClientRequest leaves behind: the status it returns, the line
\* of the return statement, the replies it wrote on the channel.
\* Mutant: the handler ends without a status for its caller.
OutcomeWithoutStatus(status, line, writes) == [status |-> "none", line |-> line, writes |-> writes]

Outcome(status, line, writes) == [status |-> status, line |-> line, writes |-> writes]

\* Lines 271-278: the GET_IDS response.  vid and did come from the cached
\* pci_dev_info_, the versions are read from the registers.
GetIdsResponse(hdr, regs) ==
    [hdr       |-> hdr,
     vid       |-> pci_dev_info_.vendor_id,
     did       |-> pci_dev_info_.device_id,
     ihda_vmaj |-> regs.vmaj,
     ihda_vmin |-> regs.vmin,
     rev_id    |-> 0,
     step_id   |-> 0]

\* SnapshotRegs: one reply carrying a copy of the register block.
SnapshotRegsResponse(hdr, regs) == [hdr |-> hdr, snapshot |-> regs]

\* Mutant: the size of a GET_IDS request is not compared.
GetIdsSizeUnchecked(req_size) == FALSE

\* Line 262: if (req_size != sizeof(req.get_ids)).
GetIdsSizeMismatch(req_size) == req_size # get_ids_size

\* Line 252: if (req_size < sizeof(req.hdr)).
HeaderTooShort(req_size) == req_size < HdrSize

\* Mutant: a rejected GET_IDS request is answered before it is rejected.
RejectedWritesWithReply(hdr, regs) == <<GetIdsResponse(hdr, regs)>>

\* Lines 265, 287: a rejected request is returned from without a write.
RejectedWrites(hdr, regs) == <<>>

\* ProcessClientRequest, lines 231-295.  res and req_size are what
\* channel->Read returned, hdr what it left in the buffer, write_status what
\* the channel write returns, regs the registers as they are read.
ProcessClientRequest(res, req_size, hdr, write_status, regs) ==
    IF res # "ZX_OK" THEN Outcome(res, 248, <<>>)
    ELSE IF HeaderTooShort(req_size) THEN Outcome("ZX_ERR_INVALID_ARGS", 255, <<>>)
    ELSE CASE hdr.cmd = IHDA_CMD_GET_IDS ->
                IF GetIdsSizeMismatch(req_size)
                THEN Outcome("ZX_ERR_INVALID_ARGS", 265, RejectedWrites(hdr, regs))
                ELSE Outcome(write_status, 280, <<GetIdsResponse(hdr, regs)>>)
           [] hdr.cmd = IHDA_CONTROLLER_CMD_SNAPSHOT_REGS ->
                IF req_size # snapshot_regs_size
                THEN Outcome("ZX_ERR_INVALID_ARGS", 287, RejectedWrites(hdr, regs))
                ELSE Outcome(write_status, 290, <<SnapshotRegsResponse(hdr, regs)>>)
           [] OTHER -> Outcome("ZX_ERR_INVALID_ARGS", 293, <<>>)

\* Mutant: the dispatcher closes a channel whose handler returned any error.
ChannelClosedOnAnyError(status) == status = "ZX_OK"

\* What the dispatcher does with the handler's status: a failed channel read
\* or write ends the exchange, a rejected request leaves the connection
\* usable.
ChannelSurvives(status) == status \notin ChannelFailures

clientFrame == UNCHANGED <<device_id_gen_, ctrl, id_, state_, irq_thread_started_,
                           default_domain_active, cookie, dev_node, hook, bind_status,
                           shutdown_returned, irq_pc, irq_wakeup, irq_pending, init_ret>>

\* DeviceIoctl, lines 215-229: a channel is created and activated on
\* default_domain_ with a process handler that holds a reference to the
\* controller; on a deactivated domain the activation fails.
DeviceIoctl(ch) ==
    /\ aborted = "none"
    /\ ctrl = "alive"
    /\ dev_node = "published"
    /\ channels[ch] = "closed"
    /\ IF default_domain_active
       THEN /\ channels' = [channels EXCEPT ![ch] = "active"]
            /\ ref_count_' = ref_count_ + 1
       ELSE UNCHANGED <<channels, ref_count_>>
    /\ inbox' = [inbox EXCEPT ![ch] = <<>>]
    /\ ret_status' = [ret_status EXCEPT ![ch] = <<>>]
    /\ UNCHANGED <<handled, last_reply>>
    /\ UNCHANGED <<in_flight, n_requests, hw_regs, pci_dev_info_, get_ids_size,
                   snapshot_regs_size, dtor_seen, aborted>>
    /\ clientFrame

\* The client writes a request to its end of the channel.
ClientSend(ch, msg) ==
    /\ aborted = "none"
    /\ channels[ch] = "active"
    /\ inbox[ch] = <<>>
    /\ n_requests < MaxRequests
    /\ inbox' = [inbox EXCEPT ![ch] = <<msg>>]
    /\ n_requests' = n_requests + 1
    /\ UNCHANGED <<channels, in_flight, handled, last_reply, ret_status, hw_regs,
                   pci_dev_info_, get_ids_size, snapshot_regs_size,
                   ref_count_, dtor_seen, aborted>>
    /\ clientFrame

\* The domain starts a dispatch only while it is active.
DispatchAllowed == default_domain_active

\* Lines 220-222 and 245: the process handler runs: it obtains the execution
\* domain token and ProcessClientRequest reads the request.  A message that
\* does not fit the buffer, or a closed peer, makes the read fail.
DispatchBegin(ch, res) ==
    /\ aborted = "none"
    /\ ctrl = "alive"
    /\ channels[ch] = "active"
    /\ DispatchAllowed
    /\ inbox[ch] # <<>>
    /\ in_flight[ch] = <<>>
    /\ (inbox[ch][1].size > ReqBufSize) => res # "ZX_OK"
    /\ in_flight' = [in_flight EXCEPT ![ch] =
                        <<[res |-> res, req_size |-> inbox[ch][1].size, hdr |-> inbox[ch][1].hdr]>>]
    /\ inbox' = [inbox EXCEPT ![ch] = <<>>]
    /\ UNCHANGED <<channels, handled, last_reply, ret_status, n_requests, hw_regs,
                   pci_dev_info_, get_ids_size, snapshot_regs_size,
                   ref_count_, dtor_seen, aborted>>
    /\ clientFrame

\* Lines 251-294: the request is checked and answered and the handler
\* returns its status to the dispatcher.
DispatchEnd(ch, write_status) ==
    /\ aborted = "none"
    /\ in_flight[ch] # <<>>
    /\ LET out == ProcessClientRequest(in_flight[ch][1].res, in_flight[ch][1].req_size,
                                       in_flight[ch][1].hdr, write_status, hw_regs)
       IN  /\ last_reply' = out.writes
           /\ handled' = <<[ch |-> ch, status |-> out.status, line |-> out.line,
                             req |-> in_flight[ch][1], regs |-> hw_regs,
                             prev |-> IF ret_status[ch] = <<>> THEN "none"
                                      ELSE ret_status[ch][1]]>>
           /\ ret_status' = [ret_status EXCEPT ![ch] = <<out.status>>]
           /\ IF ChannelSurvives(out.status)
              THEN UNCHANGED <<channels, ref_count_, ctrl, dtor_seen, aborted>>
              ELSE /\ channels' = [channels EXCEPT ![ch] = "closed"]
                   /\ ReleaseReferences(1)
    /\ in_flight' = [in_flight EXCEPT ![ch] = <<>>]
    /\ UNCHANGED <<inbox, n_requests, hw_regs, pci_dev_info_, get_ids_size,
                   snapshot_regs_size, init_ret>>
    /\ UNCHANGED <<device_id_gen_, id_, state_, irq_thread_started_,
                   default_domain_active, cookie, dev_node, hook, bind_status,
                   shutdown_returned, irq_pc, irq_wakeup, irq_pending>>

\* The registers of the hardware take other values.
HardwareChange(image) ==
    /\ aborted = "none"
    /\ ctrl = "alive"
    /\ hw_regs # image
    /\ hw_regs' = image
    /\ UNCHANGED <<channels, inbox, in_flight, handled, last_reply, ret_status, n_requests,
                   pci_dev_info_, get_ids_size, snapshot_regs_size,
                   ref_count_, dtor_seen, aborted>>
    /\ clientFrame

(***************************************************************************)
(* SpecRequests: a controller is bound and serves client requests of every *)
(* shape while the hardware registers change.  The request structures are  *)
(* declared outside this file: each is followed as the header alone and as *)
(* the header with MaxPayload more.                                        *)
(***************************************************************************)
InitRequests ==
    /\ InitPoolWith(kInitialTagMask, kInitialTagMask)
    /\ InitThreads
    /\ InitLife
    /\ \E g, r \in LayoutSizes :
          InitClientsWith(g, r, CHOOSE image \in RegImages : image.vid = "vidA")
    /\ InitOptee
    /\ InitIds
    /\ InitSmc
    /\ aborted = "none"

ReadResults == {"ZX_OK"} \cup ChannelFailures

\* The clients of SpecRequests send a request when every earlier one has
\* been handled.
Quiet == \A ch \in Channels : inbox[ch] = <<>> /\ in_flight[ch] = <<>>

NextRequests ==
    \/ DriverBindConstruct(FALSE) /\ UNCHANGED <<poolVars, threadVars, clientVars, opteeVars, idVars, smcVars>>
    \/ DriverBindInit(0, "ZX_OK") /\ UNCHANGED <<poolVars, threadVars, clientRest, opteeVars, idVars, smcVars>>
    \/ \E ch \in Channels : DeviceIoctl(ch) /\ UNCHANGED <<poolVars, threadVars, opteeVars, idVars, smcVars>>
    \/ \E ch \in Channels, msg \in Messages :
          /\ Quiet
          /\ msg.hdr.transaction_id = n_requests + 1
          /\ ClientSend(ch, msg)
          /\ UNCHANGED <<poolVars, threadVars, opteeVars, idVars, smcVars>>
    \/ \E ch \in Channels, res \in ReadResults :
          DispatchBegin(ch, res) /\ UNCHANGED <<poolVars, threadVars, opteeVars, idVars, smcVars>>
    \/ \E ch \in Channels, write_status \in ReadResults :
          DispatchEnd(ch, write_status) /\ UNCHANGED <<poolVars, threadVars, opteeVars, idVars, smcVars>>
    \/ \E image \in RegImages : HardwareChange(image) /\ UNCHANGED <<poolVars, threadVars, opteeVars, idVars, smcVars>>

SpecRequests == InitRequests /\ [][NextRequests]_vars

(***************************************************************************)
(* SpecClients: the lifecycle hooks and the interrupt thread of SpecLife   *)
(* with clients opening channels and sending well-formed requests beside   *)
(* them.                                                                   *)
(***************************************************************************)
\* ShutdownIRQThread is entered on a controller whose last reference went
\* with the handlers Deactivate destroyed.
ShutdownAfterFree ==
    /\ aborted = "none"
    /\ hook = "shutdown_irq"
    /\ ctrl # "alive"
    /\ UseAfterFree("ShutdownIRQThread:use_after_free")
    /\ hook' = "idle"
    /\ UNCHANGED <<device_id_gen_, id_, state_, irq_thread_started_,
                   default_domain_active, cookie, dev_node, bind_status,
                   shutdown_returned, irq_pc, irq_wakeup, irq_pending>>

WellFormed == [size |-> get_ids_size, hdr |-> Hdr(IHDA_CMD_GET_IDS, n_requests + 1)]

NextClients ==
    \/ NextLife
    \/ ShutdownAfterFree /\ UNCHANGED <<poolVars, threadVars, clientVars, opteeVars, idVars, smcVars>>
    \/ \E ch \in Channels : DeviceIoctl(ch) /\ UNCHANGED <<poolVars, threadVars, opteeVars, idVars, smcVars>>
    \/ \E ch \in Channels : ClientSend(ch, WellFormed) /\ UNCHANGED <<poolVars, threadVars, opteeVars, idVars, smcVars>>
    \/ \E ch \in Channels : DispatchBegin(ch, "ZX_OK") /\ UNCHANGED <<poolVars, threadVars, opteeVars, idVars, smcVars>>
    \/ \E ch \in Channels : DispatchEnd(ch, "ZX_OK") /\ UNCHANGED <<poolVars, threadVars, opteeVars, idVars, smcVars>>

SpecClients == InitFresh /\ [][NextClients]_vars

(***************************************************************************)
(* OpteeController: the client list.  DdkOpen, the release of a client and *)
(* DdkUnbind are called on threads of their own; each step below is the    *)
(* code between two points where clients_lock_ is taken or dropped.        *)
(***************************************************************************)
opteeFrame == UNCHANGED <<poolVars, threadVars, lifeVars, clientVars, idVars, smcVars, aborted>>

\* Statuses OpteeClient::DdkAdd returns when it fails.
DdkAddFailures == {"ZX_ERR_NO_RESOURCES"}

\* fbl::AutoLock lock(&clients_lock_): the lock is free.
ClientsLockAvailable == clients_lock_ = NULL

\* OpteeClient::MarkForClosing: the client's flag is set and stays set.
MarkForClosing(marks, client) == [marks EXCEPT ![client] = TRUE]

RECURSIVE MarkAll(_, _)
\* CloseClients, lines 276-278: every client of the list is marked.
MarkAll(marks, list) ==
    IF list = <<>> THEN marks
    ELSE MarkAll(MarkForClosing(marks, Head(list)), Tail(list))

\* client->InContainer().
InContainer(client) == \E i \in 1..Len(clients_) : clients_[i] = client

\* Mutant: the client stays in the list.
EraseNothing(list, client) == list

\* clients_.erase(*client).
Erase(list, client) == SelectSeq(list, LAMBDA c : c # client)

\* DdkOpen, lines 248-262: the client is allocated and published with
\* DdkAdd; either can fail and DdkOpen returns the failure.
DdkOpenCreate(t, alloc_ok, add_status) ==
    /\ open_pc[t] = "idle"
    /\ unbind_pc = "idle"
    /\ IF ~alloc_ok
       THEN /\ open_pc' = [open_pc EXCEPT ![t] = "failed"]
            /\ open_ret' = [open_ret EXCEPT ![t] = "ZX_ERR_NO_MEMORY"]
       ELSE IF add_status # "ZX_OK"
       THEN /\ open_pc' = [open_pc EXCEPT ![t] = "failed"]
            /\ open_ret' = [open_ret EXCEPT ![t] = add_status]
       ELSE /\ open_pc' = [open_pc EXCEPT ![t] = "created"]
            /\ UNCHANGED open_ret
    /\ UNCHANGED <<clients_, clients_lock_, needs_to_close_, unbind_pc>>
    /\ opteeFrame

\* AddClient, line 270: the lock is taken.
AddClientLock(t) ==
    /\ open_pc[t] = "created"
    /\ ClientsLockAvailable
    /\ clients_lock_' = t
    /\ open_pc' = [open_pc EXCEPT ![t] = "add_locked"]
    /\ UNCHANGED <<clients_, needs_to_close_, open_ret, unbind_pc>>
    /\ opteeFrame

\* AddClient, lines 271-272, and DdkOpen, line 266: the client is appended,
\* the lock dropped and DdkOpen returns ZX_OK.
AddClientPush(t) ==
    /\ open_pc[t] = "add_locked"
    /\ clients_lock_ = t
    /\ clients_' = Append(clients_, t)
    /\ clients_lock_' = NULL
    /\ open_pc' = [open_pc EXCEPT ![t] = "opened"]
    /\ open_ret' = [open_ret EXCEPT ![t] = "ZX_OK"]
    /\ UNCHANGED <<needs_to_close_, unbind_pc>>
    /\ opteeFrame

\* RemoveClient, line 309, called when an opened client is closed or
\* released; a client that has been removed can be handed to it again.
RemoveClientLock(t) ==
    /\ open_pc[t] \in {"opened", "released"}
    /\ ClientsLockAvailable
    /\ clients_lock_' = t
    /\ open_pc' = [open_pc EXCEPT ![t] =
                      IF open_pc[t] = "opened" THEN "remove_locked" ELSE "remove_again"]
    /\ UNCHANGED <<clients_, needs_to_close_, open_ret, unbind_pc>>
    /\ opteeFrame

\* RemoveClient, lines 310-314.
RemoveClientErase(t) ==
    /\ open_pc[t] \in {"remove_locked", "remove_again"}
    /\ clients_lock_ = t
    /\ clients_' = IF InContainer(t) THEN Erase(clients_, t) ELSE clients_
    /\ clients_lock_' = NULL
    /\ open_pc' = [open_pc EXCEPT ![t] = "released"]
    /\ UNCHANGED <<needs_to_close_, open_ret, unbind_pc>>
    /\ opteeFrame

\* DdkUnbind, line 282, and CloseClients, line 275: the lock is taken.
CloseClientsLock ==
    /\ unbind_pc = "idle"
    /\ ClientsLockAvailable
    /\ clients_lock_' = UnbindThread
    /\ unbind_pc' = "close_locked"
    /\ UNCHANGED <<clients_, needs_to_close_, open_pc, open_ret>>
    /\ opteeFrame

\* CloseClients, lines 276-279.
CloseClientsMark ==
    /\ unbind_pc = "close_locked"
    /\ clients_lock_ = UnbindThread
    /\ needs_to_close_' = MarkAll(needs_to_close_, clients_)
    /\ clients_lock_' = NULL
    /\ unbind_pc' = "remove"
    /\ UNCHANGED <<clients_, open_pc, open_ret>>
    /\ opteeFrame

\* DdkUnbind, lines 284-285: DdkRemove, and the hook returns.
DdkUnbindRemove ==
    /\ unbind_pc = "remove"
    /\ unbind_pc' = "done"
    /\ UNCHANGED <<clients_, clients_lock_, needs_to_close_, open_pc, open_ret>>
    /\ opteeFrame

NextOptee ==
    \/ \E t \in Openers, alloc_ok \in BOOLEAN, add_status \in {"ZX_OK"} \cup DdkAddFailures :
          DdkOpenCreate(t, alloc_ok, add_status)
    \/ \E t \in Openers : AddClientLock(t)
    \/ \E t \in Openers : AddClientPush(t)
    \/ \E t \in Openers : RemoveClientLock(t)
    \/ \E t \in Openers : RemoveClientErase(t)
    \/ CloseClientsLock
    \/ CloseClientsMark
    \/ DdkUnbindRemove

SpecOptee == InitFresh /\ [][NextOptee]_vars

(***************************************************************************)
(* SpecIds: controllers are constructed and destroyed in several slots of  *)
(* the process at once, all drawing their ids from device_id_gen_.         *)
(***************************************************************************)
idFrame == UNCHANGED <<poolVars, threadVars, clientVars, opteeVars, smcVars, aborted,
                       ctrl, id_, state_, ref_count_, irq_thread_started_,
                       default_domain_active, cookie, dev_node, hook, bind_status,
                       shutdown_returned, dtor_seen, irq_pc, irq_wakeup, irq_pending>>

\* Constructor, line 66: the member initialiser of id_ draws the id.
ConstructFetchId(c) ==
    /\ aborted = "none"
    /\ slot_pc[c] \in {"none", "failed_bind", "released"}
    /\ device_id_gen_ < MaxIds
    /\ slot_id' = [slot_id EXCEPT ![c] = <<FetchAdd(device_id_gen_).ret>>]
    /\ id_log' = Append(id_log, FetchAdd(device_id_gen_).ret)
    /\ device_id_gen_' = FetchAdd(device_id_gen_).next
    /\ slot_pc' = [slot_pc EXCEPT ![c] = "constructing"]
    /\ idFrame

\* Constructor, line 67: the body, which formats the debug tag from id_.
ConstructBody(c) ==
    /\ aborted = "none"
    /\ slot_pc[c] = "constructing"
    /\ slot_pc' = [slot_pc EXCEPT ![c] = "alive"]
    /\ UNCHANGED <<device_id_gen_, slot_id, id_log>>
    /\ idFrame

\* Destructor, lines 70-106, after a failed bind (DriverBind, line 318) or
\* after the last reference went: device_id_gen_ is not touched.
DestroyController(c, why) ==
    /\ aborted = "none"
    /\ slot_pc[c] = "alive"
    /\ slot_pc' = [slot_pc EXCEPT ![c] = why]
    /\ UNCHANGED <<device_id_gen_, slot_id, id_log>>
    /\ idFrame

NextIds ==
    \/ \E c \in ControllerSlots : ConstructFetchId(c)
    \/ \E c \in ControllerSlots : ConstructBody(c)
    \/ \E c \in ControllerSlots : DestroyController(c, "failed_bind")
    \/ \E c \in ControllerSlots : DestroyController(c, "released")

SpecIds == InitFresh /\ [][NextIds]_vars

(***************************************************************************)
(* OpteeController::CallWithMessage: the loop that calls the secure        *)
(* monitor, answers the secure world's RPC requests through rpc_handler    *)
(* and calls again, until the secure world returns for good.               *)
(***************************************************************************)
\* Line 318: tee_smc::kSmc32ReturnUnknownFunction.
kSmc32ReturnUnknownFunction == "kSmc32ReturnUnknownFunction"

\* Line 341.
kReturnEThreadLimit == "kReturnEThreadLimit"

\* The RPC-type statuses of the secure world.
RpcReturns == {"kReturnRpcAllocateMemory", "kReturnRpcCommand"}

\* The statuses result.response.status can hold after a call.
SmcStatuses ==
    {"kReturnOk", "kReturnEBusy", kReturnEThreadLimit, kSmc32ReturnUnknownFunction}
        \cup RpcReturns

\* optee::IsReturnRpc.
IsReturnRpc(status) == status \in RpcReturns

\* What zx_smc_call returns.
SmcCallStatuses == {"ZX_OK", "ZX_ERR_INTERNAL"}

\* What rpc_handler returns.
HandlerStatuses == {"ZX_OK", "ZX_ERR_INTERNAL", "ZX_ERR_NOT_SUPPORTED"}

\* The messages CallWithMessage is called with, by their physical address.
TeeMessages == {"paddrA", "paddrB"}

\* The RpcFunctionResult values a handler writes.
RpcResults == {<<"kReturnFromRpc", "resultA">>, <<"kReturnFromRpc", "resultB">>}

\* Lines 323-326: tee_smc::CreateSmcFunctionCall(kCallWithArgFuncId, paddr).
CreateSmcFunctionCall(message) == <<"kCallWithArgFuncId", message>>

\* Lines 319-322 and 355: params and rpc_result are one union, so what the
\* handler leaves in rpc_result are the parameters of the next call.
NextCallParams(params, rpc_result) == rpc_result

\* Mutant: the thread limit is returned like any other final status.
SmcOutcomeThreadLimitReturned(status, response_status) ==
    IF status # "ZX_OK" THEN "smc_failed"
    ELSE IF IsReturnRpc(response_status) THEN "rpc"
    ELSE "final"

\* Lines 336, 341, 346, 364: the four ways the loop body goes on.
SmcOutcome(status, response_status) ==
    IF status # "ZX_OK" THEN "smc_failed"
    ELSE IF response_status = kReturnEThreadLimit THEN "thread_limit"
    ELSE IF IsReturnRpc(response_status) THEN "rpc"
    ELSE "final"

smcFrame == UNCHANGED <<poolVars, threadVars, lifeVars, clientVars, opteeVars, idVars>>

\* Lines 316-326: CallWithMessage is entered.
CallWithMessageBegin(message) ==
    /\ aborted = "none"
    /\ smc_pc \in {"idle", "done"}
    /\ smc_pc' = "smc_call"
    /\ return_value' = kSmc32ReturnUnknownFunction
    /\ func_call' = CreateSmcFunctionCall(message)
    /\ result' = <<>>
    /\ smc_calls' = 0
    /\ rpc_returns' = 0
    /\ handler_calls' = 0
    /\ issued' = <<>>
    /\ handled_rpc' = <<>>
    /\ smc_ret' = <<>>
    /\ UNCHANGED aborted
    /\ smcFrame

\* Line 335: zx_smc_call(secure_monitor_, &func_call.params, &result.raw).
\* The secure world asks for at most MaxSmcCalls - 1 RPCs in one exchange.
ZxSmcCall(status, response_status, args) ==
    /\ aborted = "none"
    /\ smc_pc = "smc_call"
    /\ smc_calls < MaxSmcCalls
    /\ (smc_calls = MaxSmcCalls - 1 /\ status = "ZX_OK") => ~IsReturnRpc(response_status)
    /\ issued' = <<func_call>>
    /\ result' = <<[status |-> status,
                    response |-> IF status = "ZX_OK" THEN response_status ELSE "unset",
                    rpc_args |-> IF status = "ZX_OK" THEN args ELSE "unset"]>>
    /\ smc_calls' = smc_calls + 1
    /\ smc_pc' = "returned"
    /\ UNCHANGED <<func_call, return_value, rpc_returns, handler_calls, handled_rpc,
                   smc_ret, aborted>>
    /\ smcFrame

\* Lines 336-372: the rest of the loop body.  handler_status and rpc_result
\* are what rpc_handler returns and leaves in func_call.rpc_result when the
\* return is of the RPC type; a handler that fails may leave it as it was.
SmcDispatch(handler_status, rpc_result) ==
    /\ aborted = "none"
    /\ smc_pc = "returned"
    /\ LET outcome == SmcOutcome(result[1].status, result[1].response)
       IN  CASE outcome = "smc_failed" ->
                  /\ smc_pc' = "done"
                  /\ smc_ret' = <<return_value>>
                  /\ UNCHANGED <<func_call, return_value, rpc_returns, handler_calls,
                                 handled_rpc, aborted>>
             [] outcome = "thread_limit" ->
                  /\ smc_pc' = "done"
                  /\ smc_ret' = <<return_value>>
                  /\ UNCHANGED <<func_call, return_value, rpc_returns, handler_calls,
                                 handled_rpc, aborted>>
             [] outcome = "rpc" ->
                  /\ rpc_returns' = rpc_returns + 1
                  /\ handler_calls' = handler_calls + 1
                  /\ handled_rpc' = <<[args |-> result[1].rpc_args,
                                       status |-> handler_status,
                                       rpc_result |-> rpc_result]>>
                  /\ func_call' = NextCallParams(func_call, rpc_result)
                  /\ IF handler_status = "ZX_ERR_NOT_SUPPORTED"
                     THEN /\ aborted' = "CallWithMessage:363"
                          /\ UNCHANGED smc_pc
                     ELSE /\ smc_pc' = "smc_call"
                          /\ UNCHANGED aborted
                  /\ UNCHANGED <<return_value, smc_ret>>
             [] outcome = "final" ->
                  /\ return_value' = result[1].response
                  /\ smc_pc' = "done"
                  /\ smc_ret' = <<result[1].response>>
                  /\ UNCHANGED <<func_call, rpc_returns, handler_calls, handled_rpc,
                                 aborted>>
    /\ UNCHANGED <<result, smc_calls, issued>>
    /\ smcFrame

\* The arguments of an RPC request, as the secure world leaves them in
\* result.rpc_args.
RpcArgs == {"argsA", "argsB"}

NextSmc ==
    \/ \E message \in TeeMessages : CallWithMessageBegin(message)
    \/ \E status \in SmcCallStatuses, response_status \in SmcStatuses, args \in RpcArgs :
          ZxSmcCall(status, response_status, args)
    \/ \E handler_status \in HandlerStatuses, rpc_result \in RpcResults \cup {func_call} :
          /\ (rpc_result = func_call) => handler_status # "ZX_OK"
          /\ SmcDispatch(handler_status, rpc_result)

SpecSmc == InitFresh /\ [][NextSmc]_vars

(***************************************************************************)
(* Claims about the stream pool.                                           *)
(***************************************************************************)
\* The streams checked out and configured for direction d.
Outstanding(d) == {s \in Streams : owner[s] # {} /\ configured_type_[s] = d}

\* The lowest tag of 1..15 whose bit is set in mask, 0 when there is none.
LowestFreeTag(mask) ==
    IF \E i \in Tags : BitSet(mask, i)
    THEN CHOOSE i \in Tags : BitSet(mask, i) /\ \A j \in Tags : j < i => ~BitSet(mask, j)
    ELSE 0

\* Tags 1..15 whose bit is clear in mask.
ClearedTags(mask) == {i \in Tags : ~BitSet(mask, i)}

\* AllocateStream(type) would return a stream in the current state.
WouldAllocate(type) ==
    /\ SelectSource(type) \in StreamTypes
    /\ AllocateStreamTagLocked(TagPool(type = INPUT)).ret # 0

\* C1: at every point no two checked-out streams configured for the same
\* direction carry the same stream tag.
C1_NoDuplicateTagInDirection ==
    \A s1, s2 \in Streams :
        (/\ s1 # s2
         /\ owner[s1] # {} /\ owner[s2] # {}
         /\ configured_type_[s1] = configured_type_[s2])
        => tag_[s1] # tag_[s2]

\* Two streams are checked out in one direction, one of them a bidirectional
\* context, after a stream has been returned.
C1_Witness ==
    /\ \E s1, s2 \in Streams :
          /\ s1 # s2
          /\ owner[s1] # {} /\ owner[s2] # {}
          /\ configured_type_[s1] = configured_type_[s2]
          /\ StreamType(s2) = BIDIR
    /\ \E t \in Tags : BitSet(kInitialTagMask, t) /\ ~BitSet(free_input_tags_, t)
                          /\ \A s \in Outstanding(INPUT) : tag_[s] # t

\* C2 (as claimed): a stream given back with ReturnStream leaves its tag free
\* in the mask of the direction it was configured for.
C2_ReturnedTagIsFree ==
    [][\A s \in Streams :
          (owner[s] # {} /\ owner'[s] = {})
          => BitSet(TagPool(configured_type_[s] = INPUT)', tag_[s])]_vars

\* C3 (as claimed): the cleared bits of 1..15 of each mask are as many as the
\* streams checked out in that direction.
C3_OneClearedBitPerOutstanding ==
    /\ Cardinality(ClearedTags(free_input_tags_))  = Cardinality(Outstanding(INPUT))
    /\ Cardinality(ClearedTags(free_output_tags_)) = Cardinality(Outstanding(OUTPUT))

\* C4: a successful AllocateStream(d) assigns the lowest tag of 1..15 set in
\* d's mask at the call and clears exactly that bit; bit 0 is never changed
\* nor handed out; the call fails for lack of a tag only when no bit of 1..15
\* is set.
C4_LowestFreeTagWins ==
    [][/\ \A s \in Streams :
             (owner[s] = {} /\ owner'[s] # {}) =>
                 LET input == (configured_type_'[s] = INPUT) IN
                 /\ tag_'[s] \in Tags
                 /\ tag_'[s] = LowestFreeTag(TagPool(input))
                 /\ (IF input THEN free_input_tags_' ELSE free_output_tags_')
                       = TagPool(input) - 2 ^ tag_'[s]
                 /\ (IF input THEN free_output_tags_' ELSE free_input_tags_')
                       = TagPool(~input)
       /\ (last' # last /\ last'.op = "AllocateStream" /\ last'.why = "no_tag")
             => LowestFreeTag(TagPool(last'.arg = INPUT)) = 0
       /\ BitSet(free_input_tags_', 0) = BitSet(free_input_tags_, 0)
       /\ BitSet(free_output_tags_', 0) = BitSet(free_output_tags_, 0)
      ]_vars

\* An allocation got the last tag of its direction (every lower one was gone)
\* and an allocation of the other direction then failed for lack of a tag.
C4_Witness ==
    /\ last.op = "AllocateStream" /\ last.why = "no_tag"
    /\ \E s \in Streams : owner[s] # {} /\ tag_[s] = TagBits - 1

\* C5: every free pool holds only contexts created with the pool's type, and a
\* context nobody holds is in the pool of its creation type, whatever it was
\* last configured as.
C5_FreePoolsKeepCreationType ==
    /\ \A name \in StreamTypes : \A s \in FreeList(name) : StreamType(s) = name
    /\ \A s \in Streams : owner[s] = {} => s \in FreeList(StreamType(s))

\* A bidirectional context that was handed out has just been returned.
C5_Witness ==
    /\ last.op = "ReturnStream"
    /\ last.arg \in Streams
    /\ StreamType(last.arg) = BIDIR
    /\ last.arg \in free_bidir_streams_
    /\ \E t \in Tags : BitSet(kInitialTagMask, t)
                        /\ (~BitSet(free_input_tags_, t) \/ ~BitSet(free_output_tags_, t))

\* C6 (as claimed): after AllocateStream(d) failed for lack of a context and a
\* context that can serve d (created as d or bidirectional) is returned, the
\* next AllocateStream(d) succeeds.
C6_RetryAfterReturnSucceeds ==
    [][\A s \in Streams, d \in {INPUT, OUTPUT} :
          (/\ last = Result("AllocateStream", d, NULL, "no_stream")
           /\ owner[s] # {} /\ owner'[s] = {}
           /\ StreamType(s) \in {d, BIDIR})
          => WouldAllocate(d)']_vars


(***************************************************************************)
(* Claims about the pool under concurrent callers (SpecThreads).           *)
(***************************************************************************)
\* C7: under every interleaving no stream context is held by two callers at
\* once, no (direction, tag) pair is out twice at once, a context is never
\* both in a pool and held, and the calls exclude each other: at most one
\* thread is between taking and releasing stream_pool_lock_, and it is the
\* thread recorded as holding the mutex.
C7_CallsAreAtomicUnderLock ==
    /\ \A s \in Streams : Cardinality(owner[s]) <= 1
    /\ C1_NoDuplicateTagInDirection
    /\ \A s \in Streams : owner[s] # {} =>
          /\ \A name \in StreamTypes : s \notin FreeList(name)
          /\ configured_type_[s] \in {INPUT, OUTPUT}
          /\ tag_[s] \in Tags
    /\ \A t \in Threads : pc[t] \in InCriticalSection => stream_pool_lock_ = t
    /\ Cardinality({t \in Threads : pc[t] \in InCriticalSection}) <= 1

\* Both threads hold a stream of the same direction while one of them is in
\* a further call holding the lock and the other waits for it.
C7_Witness ==
    /\ \E t1, t2 \in Threads, s1, s2 \in Streams :
          /\ t1 # t2 /\ s1 # s2
          /\ owner[s1] = {t1} /\ owner[s2] = {t2}
          /\ configured_type_[s1] = configured_type_[s2]
          /\ pc[t1] \in InCriticalSection
          /\ pc[t2] \in {"alloc_lock", "return_lock"}


(***************************************************************************)
(* Claims about the lifecycle (SpecLife).                                  *)
(***************************************************************************)
\* Position of a state in STARTING, OPERATING, SHUTTING_DOWN, SHUT_DOWN.
Rank(st) == CHOOSE i \in 1..4 : States[i] = st

C9_ShutdownLeavesShutDown ==
    shutdown_returned =>
        /\ irq_pc = "exited"
        /\ state_ = "SHUT_DOWN"
        /\ ~irq_thread_started_
        /\ aborted \notin {"DeviceRelease:209", "~IntelHDAController:71"}

\* A bound controller was shut down, released and destroyed.
C9_Witness ==
    /\ shutdown_returned
    /\ dev_node = "released"
    /\ ctrl = "destroyed"
    /\ dtor_seen = {"SHUT_DOWN"}
    /\ aborted = "none"

\* C10: a controller's state never moves to an earlier state of STARTING,
\* OPERATING, SHUTTING_DOWN, SHUT_DOWN.
C10_StateOnlyMovesForward ==
    [][(ctrl = "alive" /\ device_id_gen_' = device_id_gen_)
          => Rank(state_') >= Rank(state_)]_vars


\* C11: the unbind sequence sets SHUTTING_DOWN before it deactivates the
\* client channels: while DeviceShutdown is deactivating them (and dispatch
\* callbacks may still be finishing) the state is no longer OPERATING.
C11_StateSetBeforeDeactivation ==
    hook = "shutdown_sync" => Rank(state_) >= 3

C13_OnlyIrqThreadWritesShutDown ==
    [][(state_ # "SHUT_DOWN" /\ state_' = "SHUT_DOWN")
          => /\ hook' = hook
             /\ ctrl' = ctrl
             /\ irq_pc \in {"handle", "finish"}
             /\ irq_pc' \in {"exiting", "exited"}]_vars

\* DeviceShutdown has returned on a controller whose thread wrote SHUT_DOWN
\* after the shutdown path asked for it.
C13_Witness ==
    /\ shutdown_returned
    /\ state_ = "SHUT_DOWN"
    /\ irq_pc = "exited"
    /\ aborted = "none"

\* C14: once ShutdownIRQThread has set SHUTTING_DOWN and signalled the
\* thread, the thread eventually sets SHUT_DOWN and exits and DeviceShutdown
\* returns.
C14_ShutdownTerminates ==
    (hook = "shutdown_join")
        ~> (shutdown_returned /\ state_ = "SHUT_DOWN" /\ irq_pc = "exited")

\* C15: DriverBind returns what Init returned; the cookie holds the reference
\* exactly when that is ZX_OK, otherwise the controller is destroyed when
\* DriverBind returns; a null cookie pointer returns ZX_ERR_INVALID_ARGS and
\* constructs nothing.
C15_BindPropagatesInitStatus ==
    [][/\ (hook = "bind_init" /\ hook' = "idle")
             => /\ bind_status' = init_ret'
                /\ cookie' = (init_ret' = "ZX_OK")
                /\ init_ret' = "ZX_OK" => (ctrl' = "alive" /\ ref_count_' = 1)
                /\ init_ret' # "ZX_OK" => (ctrl' = "destroyed" /\ ref_count_' = 0)
       /\ (hook = "idle" /\ bind_status' = "ZX_ERR_INVALID_ARGS" /\ bind_status' # bind_status)
             => (device_id_gen_' = device_id_gen_ /\ ctrl' = ctrl /\ cookie' = cookie)]_vars

\* A bind has failed with Init's status and its controller is gone.
C15_Witness ==
    /\ hook = "idle"
    /\ bind_status \in FailStatuses
    /\ bind_status = init_ret
    /\ ctrl = "destroyed"
    /\ ~cookie


\* The last handler run was on channel ch.
HandledOn(ch) == handled # <<>> /\ handled[1].ch = ch

\* The request it handled, with what the handler returned.
Handled(ch) == handled[1]

\* A request that was read whole and is a GET_IDS or SNAPSHOT_REGS request of
\* exactly its command's size.
Accepted(r) ==
    /\ r.req.res = "ZX_OK"
    /\ r.req.req_size >= HdrSize
    /\ \/ r.req.hdr.cmd = IHDA_CMD_GET_IDS /\ r.req.req_size = get_ids_size
       \/ r.req.hdr.cmd = IHDA_CONTROLLER_CMD_SNAPSHOT_REGS /\ r.req.req_size = snapshot_regs_size

\* C16: a request that was read is rejected with ZX_ERR_INVALID_ARGS (a) by
\* the header check when it is shorter than the header, whatever its command
\* id, (b) by the command's size check when it is a GET_IDS or SNAPSHOT_REGS
\* request of another length, shorter or longer, and then nothing is written,
\* (c) by the default case for any other command id.
C16_RejectsInOrder ==
    \A ch \in Channels :
        (HandledOn(ch) /\ Handled(ch).req.res = "ZX_OK") =>
            LET r    == Handled(ch)
                size == r.req.req_size
                cmd  == r.req.hdr.cmd
            IN  /\ size < HdrSize
                      => (r.status = "ZX_ERR_INVALID_ARGS" /\ r.line = 255)
                /\ (size >= HdrSize /\ cmd = IHDA_CMD_GET_IDS /\ size # get_ids_size)
                      => /\ r.status = "ZX_ERR_INVALID_ARGS"
                         /\ r.line = 265
                         /\ Len(last_reply) = 0
                /\ (size >= HdrSize /\ cmd = IHDA_CONTROLLER_CMD_SNAPSHOT_REGS
                        /\ size # snapshot_regs_size)
                      => /\ r.status = "ZX_ERR_INVALID_ARGS"
                         /\ r.line = 287
                         /\ Len(last_reply) = 0
                /\ (size >= HdrSize
                        /\ cmd \notin {IHDA_CMD_GET_IDS, IHDA_CONTROLLER_CMD_SNAPSHOT_REGS})
                      => (r.status = "ZX_ERR_INVALID_ARGS" /\ r.line = 293)

\* A GET_IDS request longer than the GET_IDS structure was rejected by the
\* size check of its case.
C16_Witness ==
    \E ch \in Channels :
        /\ HandledOn(ch)
        /\ Handled(ch).req.res = "ZX_OK"
        /\ Handled(ch).req.hdr.cmd = IHDA_CMD_GET_IDS
        /\ Handled(ch).req.req_size > get_ids_size
        /\ Handled(ch).line = 265
        /\ Handled(ch).status = "ZX_ERR_INVALID_ARGS"

\* C17: a request causes one write on its channel when it is accepted and
\* none otherwise; the reply goes to the channel of the request; a failed
\* read returns the read's status unchanged.
C17_OneReplyIffAccepted ==
    \A ch \in Channels :
        HandledOn(ch) =>
            /\ Len(last_reply) = IF Accepted(Handled(ch)) THEN 1 ELSE 0
            /\ Accepted(Handled(ch))
                  => (last_reply # <<>> /\ last_reply[1].hdr = Handled(ch).req.hdr)
            /\ Handled(ch).req.res # "ZX_OK"
                  => Handled(ch).status = Handled(ch).req.res

\* An accepted SNAPSHOT_REGS request was answered with one write.
C17_Witness ==
    \E ch \in Channels :
        /\ HandledOn(ch)
        /\ Accepted(Handled(ch))
        /\ Handled(ch).req.hdr.cmd = IHDA_CONTROLLER_CMD_SNAPSHOT_REGS
        /\ Len(last_reply) = 1

\* C18: the reply to a GET_IDS request of the right size echoes the request
\* header and carries the vendor id, device id and major and minor version
\* the hardware registers held when the request was handled.
C18_GetIdsReadsHardwareLive ==
    \A ch \in Channels :
        (HandledOn(ch) /\ Handled(ch).line = 280) =>
            LET r     == Handled(ch)
                reply == last_reply[1]
            IN  /\ reply.hdr = r.req.hdr
                /\ reply.vid = r.regs.vid
                /\ reply.did = r.regs.did
                /\ reply.ihda_vmaj = r.regs.vmaj
                /\ reply.ihda_vmin = r.regs.vmin

C20_AllClientsMarkedAfterUnbind ==
    unbind_pc = "done" =>
        \A i \in 1..Len(clients_) : needs_to_close_[clients_[i]]


(***************************************************************************)
(* Claims about the arguments and the failures of AllocateStream.          *)
(***************************************************************************)
\* The step is a call of AllocateStream(type): every call records itself in
\* `last`.
AllocateCalled(type) == last'.op = "AllocateStream" /\ last'.arg = type

\* The free pools, the masks and the contexts are as before the step.
PoolAsBefore ==
    UNCHANGED <<free_input_streams_, free_output_streams_, free_bidir_streams_,
                free_input_tags_, free_output_tags_, configured_type_, tag_, owner>>

\* No context can be taken for direction d / no tag of 1..15 is free in d.
NoContextFor(d) == FreeList(d) = {} /\ FreeList(BIDIR) = {}

NoTagFor(d) ==
    \A i \in Tags : ~BitSet(IF d = INPUT THEN free_input_tags_ ELSE free_output_tags_, i)

\* C21: an AllocateStream call for a type other than INPUT or OUTPUT returns
\* no stream and leaves the three free pools and both masks as they were.
C21_OnlyInputOrOutput ==
    [][\A type \in StreamTypes \ {INPUT, OUTPUT} :
          AllocateCalled(type) => (last'.ret = NULL /\ PoolAsBefore)]_vars

\* AllocateStream(BIDIR) was refused while a bidirectional context was free.
C21_Witness ==
    /\ last.op = "AllocateStream"
    /\ last.arg = BIDIR
    /\ last.ret = NULL
    /\ free_bidir_streams_ # {}

\* C22: AllocateStream(d) with no context to take fails as "no stream", and
\* with a context to take but no tag of 1..15 free in d fails as "no tag";
\* either way the free pools and both masks are as before the call.
C22_FailuresHaveNoEffect ==
    [][\A d \in {INPUT, OUTPUT} :
          AllocateCalled(d) =>
              /\ NoContextFor(d)
                    => (last'.ret = NULL /\ last'.why = "no_stream" /\ PoolAsBefore)
              /\ (~NoContextFor(d) /\ NoTagFor(d))
                    => (last'.ret = NULL /\ last'.why = "no_tag" /\ PoolAsBefore)
              /\ last'.ret = NULL => PoolAsBefore]_vars

\* A call failed for want of a tag while a context of its direction was free.
C22_Witness ==
    /\ last.op = "AllocateStream"
    /\ last.arg \in {INPUT, OUTPUT}
    /\ last.why = "no_tag"
    /\ FreeList(last.arg) # {}


\* C24: a successful AllocateStream(d) hands out a context of d's own free
\* pool when that pool is not empty, and one of the bidirectional pool only
\* when it is; with both empty the call fails, whoever drained the
\* bidirectional pool.
C24_BidirOnlyAsFallback ==
    [][\A d \in {INPUT, OUTPUT} :
          AllocateCalled(d) =>
              /\ last'.ret # NULL
                    => /\ last'.ret \in FreeList(IF FreeList(d) # {} THEN d ELSE BIDIR)
                       /\ StreamType(last'.ret) = (IF FreeList(d) # {} THEN d ELSE BIDIR)
              /\ NoContextFor(d) => last'.ret = NULL]_vars

\* Output allocations have checked out every bidirectional context and an
\* input request whose own pool is empty has just failed.
C24_Witness ==
    /\ last.op = "AllocateStream"
    /\ last.arg = INPUT
    /\ last.ret = NULL
    /\ last.why = "no_stream"
    /\ free_input_streams_ = {}
    /\ free_bidir_streams_ = {}
    /\ \A s \in Streams : StreamType(s) = BIDIR => configured_type_[s] = OUTPUT

\* C25: a successful AllocateStream(d) takes its tag from d's mask, also for
\* a context of the bidirectional pool, and no AllocateStream(d) changes the
\* mask of the other direction.
C25_TagFromRequestedDirection ==
    [][\A d \in {INPUT, OUTPUT} :
          AllocateCalled(d) =>
              /\ d = INPUT  => free_output_tags_' = free_output_tags_
              /\ d = OUTPUT => free_input_tags_' = free_input_tags_
              /\ last'.ret # NULL
                    => /\ tag_'[last'.ret] \in Tags
                       /\ BitSet(IF d = INPUT THEN free_input_tags_ ELSE free_output_tags_,
                                 tag_'[last'.ret])
                       /\ (IF d = INPUT THEN free_input_tags_' ELSE free_output_tags_')
                              = ClearBit(IF d = INPUT THEN free_input_tags_
                                         ELSE free_output_tags_, tag_'[last'.ret])]_vars

\* The same tag number is outstanding in both directions, once on a context
\* of the bidirectional pool.
C25_Witness ==
    \E s, o \in Streams :
        /\ owner[s] # {} /\ owner[o] # {}
        /\ configured_type_[s] = INPUT
        /\ configured_type_[o] = OUTPUT
        /\ tag_[s] = tag_[o]
        /\ StreamType(s) = BIDIR \/ StreamType(o) = BIDIR

\* The number of free pools holding context s.
PoolsHolding(s) == Cardinality({name \in StreamTypes : s \in FreeList(name)})

\* C26: between calls every context is either in exactly one free pool, with
\* configured type INVALID and tag 0 and no owner, or in none and held by
\* exactly one owner, with configured type INPUT or OUTPUT and a tag of 1..15.
C26_ContextsConserved ==
    \A s \in Streams :
        \/ /\ PoolsHolding(s) = 1
           /\ owner[s] = {}
           /\ configured_type_[s] = INVALID
           /\ tag_[s] = 0
        \/ /\ PoolsHolding(s) = 0
           /\ Cardinality(owner[s]) = 1
           /\ configured_type_[s] \in {INPUT, OUTPUT}
           /\ tag_[s] \in Tags

\* A context has been returned while another is still checked out.
C26_Witness ==
    /\ last.op = "ReturnStream"
    /\ PoolsHolding(last.arg) = 1
    /\ \E o \in Streams : owner[o] # {}


\* The status codes ProcessClientRequest returns: success, a rejected request,
\* what the channel read or write returned.
StatusCodes == {"ZX_OK", "ZX_ERR_INVALID_ARGS"} \cup ChannelFailures

\* ProcessClientRequest returns on channel ch in this step.
HandlerReturns(ch) == in_flight[ch] # <<>> /\ in_flight'[ch] = <<>>

\* C27: ProcessClientRequest, whether it replies, rejects the request or
\* fails on the channel, leaves the lifecycle state, the three free stream
\* pools and both tag masks as they were, and returns a status code.
C27_DispatchReadOnly ==
    [][\A ch \in Channels :
          HandlerReturns(ch) =>
             /\ UNCHANGED <<state_, free_input_streams_, free_output_streams_,
                            free_bidir_streams_, free_input_tags_, free_output_tags_>>
             /\ handled' # <<>>
             /\ handled'[1].ch = ch
             /\ handled'[1].status \in StatusCodes
             /\ ret_status'[ch] = <<handled'[1].status>>]_vars

\* A reply was written and the channel write failed: the handler returned
\* the failure from line 280 on an operating controller.
C27_Witness ==
    /\ handled # <<>>
    /\ handled[1].line = 280
    /\ handled[1].status \in ChannelFailures
    /\ last_reply # <<>>
    /\ state_ = "OPERATING"

\* A step of the shutdown hook (DeviceShutdown, ShutdownIRQThread).
ShutdownStep == hook' # hook /\ hook = "shutdown_irq" /\ ctrl = "alive"

\* A shutdown has completed on the controller and the thread is not started.
ShutdownCompleted == shutdown_returned /\ ~irq_thread_started_ /\ state_ = "SHUT_DOWN"

\* C28: ShutdownIRQThread on a controller whose interrupt thread is not
\* started changes no state, wakes and joins nothing and returns; after a
\* completed shutdown a second DeviceShutdown never sets the state back to
\* SHUTTING_DOWN: the state stays SHUT_DOWN while the controller lives.
C28_ShutdownIdempotent ==
    [][/\ (ShutdownStep /\ ~irq_thread_started_) =>
             /\ UNCHANGED <<state_, irq_thread_started_, irq_pc, irq_wakeup,
                            ref_count_, ctrl>>
             /\ hook' = "idle"
             /\ shutdown_returned'
       /\ (ShutdownCompleted /\ ctrl = "alive" /\ ctrl' = "alive") =>
             /\ state_' = "SHUT_DOWN"
             /\ ~irq_thread_started_'
             /\ hook' \notin {"shutdown_wakeup", "shutdown_join"}]_vars

\* A second DeviceShutdown has reached ShutdownIRQThread after a completed
\* shutdown.
C28_Witness ==
    /\ hook = "shutdown_irq"
    /\ ctrl = "alive"
    /\ ShutdownCompleted
    /\ irq_pc = "exited"

\* The handles the framework can still reclaim a reference from without
\* adoption: the cookie of DriverUnbind, the device node of DeviceRelease.
ReclaimableHandles ==
    (IF cookie THEN 1 ELSE 0) + (IF dev_node = "published" THEN 1 ELSE 0)

OpenedNotRemoved(c) == open_pc[c] \in {"opened", "remove_locked"}

\* C30: outside AddClient's window the client list holds exactly the clients
\* opened successfully and not yet removed, each once; a failed DdkOpen
\* leaves the list as it was; RemoveClient on a client that is not in the
\* list changes nothing.
C30_ListHoldsOpenClients ==
    \A c \in Openers :
       /\ Cardinality({i \in 1..Len(clients_) : clients_[i] = c}) <= 1
       /\ (\E i \in 1..Len(clients_) : clients_[i] = c) <=> OpenedNotRemoved(c)

\* RemoveClient runs a second time for a client it has already erased while
\* another client, opened beside it, is in the list.
C30_Witness ==
    \E c, d \in Openers :
       /\ open_pc[c] = "remove_again"
       /\ clients_lock_ = c
       /\ open_pc[d] = "opened"
       /\ clients_ = <<d>>

\* C23: controller ids are unique and handed out in increasing order: the
\* ids drawn from device_id_gen_ grow strictly from one construction to the
\* next, so none is drawn twice, also after its controller was destroyed or
\* its bind failed; two controllers never hold the same id; every id handed
\* out lies below the generator's value.
C23_IdsUniqueAndMonotonic ==
    /\ \A i, j \in 1..Len(id_log) : i < j => id_log[i] < id_log[j]
    /\ \A c, d \in ControllerSlots :
          (c # d /\ slot_id[c] # <<>> /\ slot_id[d] # <<>>) => slot_id[c][1] # slot_id[d][1]
    /\ \A c \in ControllerSlots : slot_id[c] # <<>> => slot_id[c][1] < device_id_gen_

\* A controller is being constructed in a slot whose earlier controller was
\* destroyed, while another controller, of a failed bind or alive, holds an
\* id drawn in between.
C23_Witness ==
    \E c, d \in ControllerSlots :
       /\ c # d
       /\ slot_pc[c] = "constructing"
       /\ slot_pc[d] \in {"alive", "failed_bind"}
       /\ Len(id_log) >= 3
       /\ slot_id[c][1] > slot_id[d][1]

\* The loop body past zx_smc_call runs in this step.
SmcDispatched == smc_pc = "returned" /\ (smc_pc' # smc_pc \/ aborted' # aborted)

\* The call returned to was made and the secure world asks for an RPC.
RpcReturned == result[1].status = "ZX_OK" /\ result[1].response \in RpcReturns

\* The call failed or the secure world is out of threads.
CallFailedOrThreadLimit ==
    result[1].status # "ZX_OK" \/ result[1].response = kReturnEThreadLimit

\* rpc_handler runs once in this step, on the arguments of the RPC request,
\* and what it leaves behind are the parameters of the next call.
HandlerRunsOnce ==
    /\ handler_calls' = handler_calls + 1
    /\ handled_rpc' # <<>>
    /\ handled_rpc'[1].args = result[1].rpc_args
    /\ func_call' = handled_rpc'[1].rpc_result

\* The loop is back at zx_smc_call.
SmcReissued == smc_pc' = "smc_call" /\ aborted' = "none"

\* CallWithMessage returns value in this step without running rpc_handler.
ReturnsWithoutHandler(value) ==
    /\ smc_pc' = "done"
    /\ smc_ret' = <<value>>
    /\ handler_calls' = handler_calls
    /\ aborted' = "none"

\* Every call after the first is given what the last handler run left, the
\* first the function call made from the message; a final status is returned
\* as it is, a failed call and the thread limit as the unknown-function code.
SmcCallsAndReturns ==
    /\ (smc_pc = "smc_call" /\ smc_pc' = "returned") =>
          /\ issued' = <<func_call>>
          /\ IF handled_rpc = <<>>
             THEN \E message \in TeeMessages : issued'[1] = CreateSmcFunctionCall(message)
             ELSE issued'[1] = handled_rpc[1].rpc_result
    /\ (SmcDispatched /\ CallFailedOrThreadLimit) =>
          ReturnsWithoutHandler(kSmc32ReturnUnknownFunction)
    /\ (SmcDispatched /\ ~CallFailedOrThreadLimit /\ ~RpcReturned) =>
          ReturnsWithoutHandler(result[1].response)

\* C31 as claimed: CallWithMessage calls again after every RPC-type return,
\* running rpc_handler once for it and passing on what the handler left; the
\* first other return ends it with that status, a failed call or the thread
\* limit with the unknown-function code, and no handler run.
C31_FollowsSmcProtocol ==
    [][/\ (SmcDispatched /\ RpcReturned) => (HandlerRunsOnce /\ SmcReissued)
       /\ SmcCallsAndReturns]_vars

\* C31, amended: as above, but the call is made again only when rpc_handler
\* did not answer ZX_ERR_NOT_SUPPORTED; on that answer the assertion of
\* line 363 fails and no further call is made.
C31_FollowsSmcProtocolUnlessUnsupported ==
    [][/\ (SmcDispatched /\ RpcReturned) =>
             /\ HandlerRunsOnce
             /\ IF handled_rpc'[1].status = "ZX_ERR_NOT_SUPPORTED"
                THEN aborted' = "CallWithMessage:363" /\ smc_pc' = "returned"
                ELSE SmcReissued
       /\ SmcCallsAndReturns]_vars

\* An exchange of three calls has ended: two RPC requests were answered, one
\* of them by a handler that failed, the last call was given what the last
\* handler run left and its final status was returned.
C31_Witness ==
    /\ smc_pc = "done"
    /\ smc_calls = 3
    /\ handler_calls = 2
    /\ rpc_returns = 2
    /\ handled_rpc[1].status = "ZX_ERR_INTERNAL"
    /\ issued = <<handled_rpc[1].rpc_result>>
    /\ smc_ret = <<"kReturnEBusy">>

====
